---- MODULE Spec2Model ----
(***************************************************************************)
(* Model of @valora/logging (src/src/logging.ts): a bunyan logger whose    *)
(* _emit entry point is wrapped by a redaction pipeline                    *)
(*   JSON.stringify(rest, bigIntReplacer) -> globalReplace -> JSON.parse   *)
(*   -> fast-redact -> Object.assign(logRecord, ...) -> original _emit.    *)
(*                                                                         *)
(* Text is a sequence of one-character strings.  JavaScript values are     *)
(* tagged records; objects keep their properties as an ordered sequence of *)
(* <<key, value>> pairs and carry an identity `id` (0 for an object built  *)
(* during the call, > 0 for an object owned by the caller and stored in    *)
(* `heap`).                                                                *)
(***************************************************************************)
EXTENDS Integers, Sequences, FiniteSets, TLC

(***************************************************************************)
(* State                                                                   *)
(***************************************************************************)
VARIABLES
    env,      \* process.env
    logger,   \* the logger returned by createLogger, once built
    heap,     \* the objects owned by the caller
    last,     \* the last log call and what it handed to the original _emit
    nCalls,   \* number of log calls made, which is also the clock
    calls,    \* for every log call made, in order: did it pass the level
              \* guard, and did it throw
    sink,     \* the time stamps of the records handed to the original _emit,
              \* in the order they were handed over
    mw,       \* the logging middleware, once built, and the request whose
              \* code made the last log call
    reqs      \* the HTTP requests: how far each one is

(***************************************************************************)
(* JavaScript values                                                       *)
(***************************************************************************)
Str(s) == [t |-> "str", s |-> s]
\* a Number that is an integer TLC can compute with
Num(n) == [t |-> "num", n |-> n]
\* any other finite Number except -0: ds * 10^e, negated when neg, where ds
\* are the digits Number::toString writes for it (the shortest that denote
\* the Number, without a zero at either end)
Dec(neg, ds, e) == [t |-> "dec", neg |-> neg, ds |-> ds, e |-> e]
\* -0
NegZero == [t |-> "negzero"]
\* Infinity and -Infinity
Inf(neg) == [t |-> "inf", neg |-> neg]
Big(n) == [t |-> "big", big |-> n]
Bool(b) == [t |-> "bool", b |-> b]
Null == [t |-> "null"]
Undef == [t |-> "undef"]
Obj(id, kv) == [t |-> "obj", id |-> id, kv |-> kv]
Arr(a) == [t |-> "arr", a |-> a]
\* a Date with time value ms (a valid one, within the integers TLC computes
\* with: some 24 days either side of 1970-01-01)
DateVal(ms) == [t |-> "date", ms |-> ms]
\* the outcome of an operation that throws
Throw == [t |-> "throw"]
\* a reference to an object that contains it (a circular structure)
Cycle == [t |-> "cycle"]

IsThrow(x) == x.t = "throw"

\* ToBoolean
Truthy(x) ==
    CASE x.t = "str" -> x.s # <<>>
      [] x.t = "num" -> x.n # 0
      [] x.t = "negzero" -> FALSE
      [] x.t = "big" -> x.big # 0
      [] x.t = "bool" -> x.b
      [] x.t \in {"null", "undef"} -> FALSE
      [] OTHER -> TRUE

\* x == null
IsNullish(x) == x.t \in {"null", "undef"}

\* typeof x === 'object' (null included)
TypeofObject(x) == x.t \in {"obj", "arr", "null", "date"}

(***************************************************************************)
(* Decimal text of integers (Number and BigInt toString)                   *)
(***************************************************************************)
Digits == <<"0", "1", "2", "3", "4", "5", "6", "7", "8", "9">>

IsDigit(c) == \E i \in 1..10 : Digits[i] = c

DigitValue(c) == (CHOOSE i \in 1..10 : Digits[i] = c) - 1

RECURSIVE NatToText(_)
NatToText(n) ==
    IF n < 10 THEN <<Digits[n + 1]>>
    ELSE NatToText(n \div 10) \o <<Digits[(n % 10) + 1]>>

IntToText(n) == IF n < 0 THEN <<"-">> \o NatToText(0 - n) ELSE NatToText(n)

\* the number a run of digits writes
RECURSIVE TextToNat(_, _)
TextToNat(s, acc) ==
    IF s = <<>> THEN acc ELSE TextToNat(Tail(s), acc * 10 + DigitValue(Head(s)))

\* a <= b for two runs of digits of the same length
RECURSIVE DigitsLeq(_, _)
DigitsLeq(a, b) ==
    IF a = <<>> THEN TRUE
    ELSE IF Head(a) = Head(b) THEN DigitsLeq(Tail(a), Tail(b))
    ELSE DigitValue(Head(a)) < DigitValue(Head(b))

\* a < b for two numerals without leading zeros
NumeralLess(a, b) ==
    Len(a) < Len(b) \/ (Len(a) = Len(b) /\ a # b /\ DigitsLeq(a, b))

\* 2^32 - 2, the largest array index, and 2^31 - 1, the largest integer TLC
\* computes with
MaxIndexText == <<"4", "2", "9", "4", "9", "6", "7", "2", "9", "4">>
MaxIntText == <<"2", "1", "4", "7", "4", "8", "3", "6", "4", "7">>

\* k zeros
Zeros(k) == [i \in 1..k |-> "0"]

\* n written with at least w digits
RECURSIVE Pad(_, _)
Pad(n, w) == IF w <= 1 \/ n >= 10 ^ (w - 1) THEN NatToText(n)
             ELSE <<"0">> \o Pad(n, w - 1)

(***************************************************************************)
(* Object property access                                                  *)
(***************************************************************************)
RECURSIVE KvHas(_, _)
KvHas(kv, key) ==
    IF kv = <<>> THEN FALSE
    ELSE IF Head(kv)[1] = key THEN TRUE ELSE KvHas(Tail(kv), key)

RECURSIVE KvGet(_, _)
KvGet(kv, key) ==
    IF kv = <<>> THEN Undef
    ELSE IF Head(kv)[1] = key THEN Head(kv)[2] ELSE KvGet(Tail(kv), key)

\* the key is an integer index: the canonical decimal text of a number up
\* to 2^32 - 2
IsIntegerKey(key) ==
    /\ Len(key) \in 1..10
    /\ \A i \in 1..Len(key) : IsDigit(key[i])
    /\ Len(key) = 1 \/ key[1] # "0"
    /\ Len(key) = 10 => DigitsLeq(key, MaxIndexText)

\* a new property of an ordinary object: an integer index goes among the
\* integer indices, in ascending order and before every other key; any
\* other key goes last
RECURSIVE KvInsertIndex(_, _, _)
KvInsertIndex(kv, key, val) ==
    IF kv = <<>> THEN <<<<key, val>>>>
    ELSE IF \/ ~IsIntegerKey(Head(kv)[1])
            \/ NumeralLess(key, Head(kv)[1])
    THEN <<<<key, val>>>> \o kv
    ELSE <<Head(kv)>> \o KvInsertIndex(Tail(kv), key, val)

KvInsert(kv, key, val) ==
    IF IsIntegerKey(key) THEN KvInsertIndex(kv, key, val)
    ELSE Append(kv, <<key, val>>)

\* an existing property takes the value and keeps its place
RECURSIVE KvReplace(_, _, _)
KvReplace(kv, key, val) ==
    IF kv = <<>> THEN <<>>
    ELSE IF Head(kv)[1] = key THEN <<<<key, val>>>> \o Tail(kv)
    ELSE <<Head(kv)>> \o KvReplace(Tail(kv), key, val)

\* o[key] = val on an ordinary object
KvSet(kv, key, val) ==
    IF KvHas(kv, key) THEN KvReplace(kv, key, val) ELSE KvInsert(kv, key, val)

RECURSIVE KvRemove(_, _)
KvRemove(kv, keys) ==
    IF kv = <<>> THEN <<>>
    ELSE IF Head(kv)[1] \in keys THEN KvRemove(Tail(kv), keys)
    ELSE <<Head(kv)>> \o KvRemove(Tail(kv), keys)

KvKeys(kv) == [i \in 1..Len(kv) |-> kv[i][1]]

\* the index of an array element as a property key
IsIndexKey(key, len) == \E i \in 0..(len - 1) : NatToText(i) = key

IndexOfKey(key, len) == CHOOSE i \in 0..(len - 1) : NatToText(i) = key

\* Object.keys(x)
ObjectKeys(x) ==
    CASE x.t = "obj" -> KvKeys(x.kv)
      [] x.t = "arr" -> [i \in 1..Len(x.a) |-> NatToText(i - 1)]
      [] x.t = "str" -> [i \in 1..Len(x.s) |-> NatToText(i - 1)]
      [] OTHER -> <<>>

\* key in x, for x an object or an array
HasProp(x, key) ==
    CASE x.t = "obj" -> KvHas(x.kv, key)
      [] x.t = "arr" -> IsIndexKey(key, Len(x.a))
      [] OTHER -> FALSE

\* x[key]
GetProp(x, key) ==
    CASE x.t = "obj" -> KvGet(x.kv, key)
      [] x.t = "arr" ->
           IF IsIndexKey(key, Len(x.a)) THEN x.a[IndexOfKey(key, Len(x.a)) + 1]
           ELSE Undef
      [] x.t = "str" ->
           IF IsIndexKey(key, Len(x.s))
           THEN Str(<<x.s[IndexOfKey(key, Len(x.s)) + 1]>>)
           ELSE Undef
      [] OTHER -> Undef

\* x[key] = val, for x an object or an array (existing index)
SetProp(x, key, val) ==
    CASE x.t = "obj" -> [x EXCEPT !.kv = KvSet(x.kv, key, val)]
      [] x.t = "arr" ->
           IF IsIndexKey(key, Len(x.a))
           THEN [x EXCEPT !.a[IndexOfKey(key, Len(x.a)) + 1] = val]
           ELSE x
      [] OTHER -> x

(***************************************************************************)
(* JSON.stringify(value, bigIntReplacer)                                   *)
(***************************************************************************)
QUOTE == "\""
BACKSLASH == "\\"
LF == "\n"
TAB == "\t"
CR == "\r"
FF == "\f"

\* the characters U+0020 to U+007E, in order (U+0060, which a TLA+ string
\* cannot hold, by its spelling: see CodeUnit)
Ascii ==
    <<" ", "!", QUOTE, "#", "$", "%", "&", "'", "(", ")", "*", "+", ",", "-", ".", "/",
       "0", "1", "2", "3", "4", "5", "6", "7", "8", "9", ":", ";", "<", "=", ">", "?",
       "@", "A", "B", "C", "D", "E", "F", "G", "H", "I", "J", "K", "L", "M", "N", "O",
       "P", "Q", "R", "S", "T", "U", "V", "W", "X", "Y", "Z", "[", BACKSLASH, "]", "^", "_",
       "\\u0060", "a", "b", "c", "d", "e", "f", "g", "h", "i", "j", "k", "l", "m", "n", "o",
       "p", "q", "r", "s", "t", "u", "v", "w", "x", "y", "z", "{", "|", "}", "~">>

HexDigits ==
    <<"0", "1", "2", "3", "4", "5", "6", "7", "8", "9", "a", "b", "c", "d", "e", "f">>

\* the four hexadecimal digits of a code unit
Hex4(n) ==
    <<HexDigits[((n \div 4096) % 16) + 1], HexDigits[((n \div 256) % 16) + 1],
      HexDigits[((n \div 16) % 16) + 1], HexDigits[(n % 16) + 1]>>

\* A UTF-16 code unit as an element of a text.  A text is a sequence with
\* one element per code unit: the character itself where a TLA+ string can
\* hold it, and otherwise the six characters of its \uXXXX spelling taken
\* together as one element.
CodeUnit(n) ==
    CASE n = 9 -> TAB
      [] n = 10 -> LF
      [] n = 12 -> FF
      [] n = 13 -> CR
      [] n \in 32..126 -> Ascii[n - 31]
      [] OTHER -> LET h == Hex4(n) IN "\\u" \o h[1] \o h[2] \o h[3] \o h[4]

\* U+0008, which is CodeUnit(8)
BS == "\\u0008"

\* the element is one of the code units first..final
InCodeRange(c, first, final) == \E n \in first..final : CodeUnit(n) = c

CodeOf(c, first, final) == CHOOSE n \in first..final : CodeUnit(n) = c

\* U+0000 to U+001F
IsControlChar(c) ==
    c \in {TAB, LF, FF, CR} \/ (Len(c) > 1 /\ InCodeRange(c, 0, 31))

\* the character may stand in a JSON string literal as it is
IsLiteralChar(c) == Len(c) = 1 /\ c \notin {TAB, LF, FF, CR, QUOTE, BACKSLASH}

\* U+D800 to U+DBFF and U+DC00 to U+DFFF
IsLeadingSurrogate(c) == Len(c) > 1 /\ InCodeRange(c, 55296, 56319)
IsTrailingSurrogate(c) == Len(c) > 1 /\ InCodeRange(c, 56320, 57343)

\* the element at i is a surrogate without its partner
IsLoneSurrogate(s, i) ==
    \/ IsLeadingSurrogate(s[i]) /\ ~(i < Len(s) /\ IsTrailingSurrogate(s[i + 1]))
    \/ IsTrailingSurrogate(s[i]) /\ ~(i > 1 /\ IsLeadingSurrogate(s[i - 1]))

\* \uXXXX written out
UnicodeEscape(n) == <<BACKSLASH, "u">> \o Hex4(n)

\* variant of QuoteJSONString that writes the characters as they are
QuoteJSONStringRaw(s) == <<QUOTE>> \o s \o <<QUOTE>>

\* Number::toString of s * 10^(n - Len(ds)), ds being the digits of s
DecimalText(ds, n) ==
    LET k == Len(ds) IN
    IF k <= n /\ n <= 21 THEN ds \o Zeros(n - k)
    ELSE IF 0 < n /\ n <= 21 THEN SubSeq(ds, 1, n) \o <<".">> \o SubSeq(ds, n + 1, k)
    ELSE IF -6 < n /\ n <= 0 THEN <<"0", ".">> \o Zeros(0 - n) \o ds
    ELSE (IF k = 1 THEN ds ELSE <<ds[1], ".">> \o SubSeq(ds, 2, k))
         \o <<"e">> \o (IF n - 1 < 0 THEN <<"-">> \o NatToText(1 - n)
                        ELSE <<"+">> \o NatToText(n - 1))

DecimalOf(neg, ds, e) == (IF neg THEN <<"-">> ELSE <<>>) \o DecimalText(ds, Len(ds) + e)

\* Number::toString
NumberToText(x) ==
    CASE x.t = "num" -> IntToText(x.n)
      [] x.t = "dec" -> DecimalOf(x.neg, x.ds, x.e)
      [] x.t = "negzero" -> <<"0">>
      [] x.t = "inf" -> (IF x.neg THEN <<"-">> ELSE <<>>) \o <<"I", "n", "f", "i", "n", "i", "t", "y">>

\* the characters with an escape of their own
Escaped == {QUOTE, BACKSLASH, LF, TAB, CR, FF, BS}

\* QuoteJSONString: the quote, the backslash and the control characters are
\* escaped, a surrogate without its partner is written as \uXXXX, every
\* other code unit is written as it is
EscapeOf(s, i) ==
    LET c == s[i] IN
         (IF c \notin Escaped /\ Len(c) = 1 THEN <<c>>
          ELSE CASE c = QUOTE -> <<BACKSLASH, QUOTE>>
                 [] c = BACKSLASH -> <<BACKSLASH, BACKSLASH>>
                 [] c = LF -> <<BACKSLASH, "n">>
                 [] c = TAB -> <<BACKSLASH, "t">>
                 [] c = CR -> <<BACKSLASH, "r">>
                 [] c = FF -> <<BACKSLASH, "f">>
                 [] c = BS -> <<BACKSLASH, "b">>
                 [] IsControlChar(c) -> UnicodeEscape(CodeOf(c, 0, 31))
                 [] IsLoneSurrogate(s, i) -> UnicodeEscape(CodeOf(c, 55296, 57343))
                 [] OTHER -> <<c>>)

\* the places lo..hi of s escaped, one half of them after the other; a run
\* without anything to escape is written as it is
RECURSIVE EscapeChars(_, _, _)
EscapeChars(s, lo, hi) ==
    CASE lo > hi \/ hi > Len(s) -> <<>>
      [] lo <= hi /\ hi <= Len(s) /\ \A i \in lo..hi : s[i] \notin Escaped /\ Len(s[i]) = 1 ->
           SubSeq(s, lo, hi)
      [] lo = hi -> EscapeOf(s, lo)
      [] OTHER -> EscapeChars(s, lo, (lo + hi) \div 2)
                  \o EscapeChars(s, ((lo + hi) \div 2) + 1, hi)

QuoteJSONString(s) == <<QUOTE>> \o EscapeChars(s, 1, Len(s)) \o <<QUOTE>>

\* floor(a / b) and a - b * floor(a / b) for b > 0 and any integer a
FloorDiv(a, b) == IF a >= 0 THEN a \div b ELSE 0 - ((b - 1 - a) \div b)
FloorMod(a, b) == a - b * FloorDiv(a, b)

\* the year, month and day of a day counted from 1970-01-01, by way of the
\* day of the 400-year era (doe), the year of the era (yoe), the day of the
\* year counted from 1 March (doy) and the month counted from March (mp)
CivilOfMonth(y, mp, doy) ==
    [year |-> IF mp < 10 THEN y ELSE y + 1,
     month |-> IF mp < 10 THEN mp + 3 ELSE mp - 9,
     day |-> doy - ((153 * mp + 2) \div 5) + 1]

CivilOfDay(y, doy) == CivilOfMonth(y, (5 * doy + 2) \div 153, doy)

CivilOfYear(era, doe, yoe) ==
    CivilOfDay(yoe + era * 400, doe - (365 * yoe + (yoe \div 4) - (yoe \div 100)))

CivilOfEra(era, doe) ==
    CivilOfYear(era, doe,
                (doe - (doe \div 1460) + (doe \div 36524) - (doe \div 146096)) \div 365)

CivilOfShifted(z, era) == CivilOfEra(era, z - era * 146097)

CivilFromDays(days) == CivilOfShifted(days + 719468, FloorDiv(days + 719468, 146097))

\* four digits for the years 0 to 9999, a sign and six digits otherwise
YearText(y) ==
    IF y \in 0..9999 THEN Pad(y, 4)
    ELSE (IF y < 0 THEN <<"-">> ELSE <<"+">>) \o Pad(IF y < 0 THEN 0 - y ELSE y, 6)

\* YYYY-MM-DDTHH:mm:ss.sssZ
ISOText(date, t) ==
    YearText(date.year) \o <<"-">> \o Pad(date.month, 2) \o <<"-">> \o Pad(date.day, 2)
    \o <<"T">> \o Pad(t \div 3600000, 2) \o <<":">> \o Pad((t \div 60000) % 60, 2)
    \o <<":">> \o Pad((t \div 1000) % 60, 2) \o <<".">> \o Pad(t % 1000, 3) \o <<"Z">>

\* Date.prototype.toISOString of the time value ms
ToISOString(ms) ==
    ISOText(CivilFromDays(FloorDiv(ms, 86400000)), FloorMod(ms, 86400000))

\* value.toJSON(), which JSON.stringify calls on a value that has it before
\* the replacer sees the value: a Date has it
ToJSON(value) == IF value.t = "date" THEN Str(ToISOString(value.ms)) ELSE value

Txt(x) == [k |-> "txt", txt |-> x]
NoTxt == [k |-> "undef"]
TxtThrow == [k |-> "throw"]

\* variant of bigIntReplacer that returns every value as it is
bigIntReplacerKept(value) == value

\* src/src/logging.ts:305-307
bigIntReplacer(value) ==
    IF value.t = "big" THEN Str(IntToText(value.big)) ELSE value

\* the value JSON.stringify(value, bigIntReplacer) serializes: the replacer
\* is called on the value and on every property and element below it, each
\* time with what toJSON made of the value
RECURSIVE Normalized(_)
Normalized(value) ==
    LET x == bigIntReplacer(ToJSON(value)) IN
    CASE x.t = "obj" ->
           Obj(x.id, [i \in 1..Len(x.kv) |-> <<x.kv[i][1], Normalized(x.kv[i][2])>>])
      [] x.t = "arr" -> Arr([i \in 1..Len(x.a) |-> Normalized(x.a[i])])
      [] OTHER -> x

\* SerializeJSONProperty, with toJSON and then the replacer function applied
\* to every property value before it is serialized.  A property whose value
\* serializes to undefined is left out of an object and written as null in
\* an array; a BigInt that reaches the serializer throws a TypeError.
RECURSIVE SerializeJSONProperty(_)
RECURSIVE SerializeJSONObject(_, _)
RECURSIVE SerializeJSONArray(_, _)
SerializeJSONProperty(value) ==
    LET x == bigIntReplacer(ToJSON(value)) IN
    CASE x.t = "null" -> Txt(<<"n", "u", "l", "l">>)
      [] x.t = "bool" -> Txt(IF x.b THEN <<"t", "r", "u", "e">>
                                     ELSE <<"f", "a", "l", "s", "e">>)
      [] x.t = "str" -> Txt(QuoteJSONString(x.s))
      [] x.t \in {"num", "dec", "negzero"} -> Txt(NumberToText(x))
      \* a Number that is not finite is written as null
      [] x.t = "inf" -> Txt(<<"n", "u", "l", "l">>)
      [] x.t = "big" -> TxtThrow
      [] x.t = "undef" -> NoTxt
      [] x.t = "obj" -> SerializeJSONObject(x.kv, TRUE)
      [] x.t = "arr" -> SerializeJSONArray(x.a, TRUE)
      \* TypeError: Converting circular structure to JSON
      [] x.t = "cycle" -> TxtThrow

\* the members of an object, after the opening brace
SerializeJSONObject(kv, first) ==
    IF kv = <<>> THEN Txt(IF first THEN <<"{", "}">> ELSE <<"}">>)
    ELSE LET p == SerializeJSONProperty(Head(kv)[2])
             r == SerializeJSONObject(Tail(kv), first /\ p.k = "undef")
         IN  IF p.k = "throw" \/ r.k = "throw" THEN TxtThrow
             ELSE IF p.k = "undef" THEN r
             ELSE Txt((IF first THEN <<"{">> ELSE <<",">>)
                      \o QuoteJSONString(Head(kv)[1]) \o <<":">> \o p.txt
                      \o r.txt)

SerializeJSONArray(a, first) ==
    IF a = <<>> THEN Txt(IF first THEN <<"[", "]">> ELSE <<"]">>)
    ELSE LET p == SerializeJSONProperty(Head(a))
             r == SerializeJSONArray(Tail(a), FALSE)
         IN  IF p.k = "throw" \/ r.k = "throw" THEN TxtThrow
             ELSE Txt((IF first THEN <<"[">> ELSE <<",">>)
                      \o (IF p.k = "undef" THEN <<"n", "u", "l", "l">>
                          ELSE p.txt)
                      \o r.txt)

JSONStringify(value) == SerializeJSONProperty(value)

(***************************************************************************)
(* JSON.parse(text)                                                        *)
(***************************************************************************)
Ok(v, i) == [ok |-> TRUE, v |-> v, i |-> i]
Bad == [ok |-> FALSE]

At(txt, i) == IF i <= Len(txt) THEN txt[i] ELSE "EOF"

\* JSON white space: space, tab, line feed, carriage return
RECURSIVE SkipWs(_, _)
SkipWs(txt, i) ==
    IF At(txt, i) \in {" ", TAB, LF, CR} THEN SkipWs(txt, i + 1) ELSE i

IsHexDigit(c) == c \in {"A", "B", "C", "D", "E", "F"} \/ \E i \in 1..16 : HexDigits[i] = c

HexValue(c) ==
    CASE c = "A" -> 10 [] c = "B" -> 11 [] c = "C" -> 12
      [] c = "D" -> 13 [] c = "E" -> 14 [] c = "F" -> 15
      [] OTHER -> (CHOOSE i \in 1..16 : HexDigits[i] = c) - 1

\* the code unit \uXXXX names, for the four characters from i
ParseHex4(txt, i) ==
    IF \A j \in 0..3 : IsHexDigit(At(txt, i + j))
    THEN Ok(CodeUnit(HexValue(txt[i]) * 4096 + HexValue(txt[i + 1]) * 256
                     + HexValue(txt[i + 2]) * 16 + HexValue(txt[i + 3])), i + 4)
    ELSE Bad

MatchesAt(txt, i, word) ==
    /\ i + Len(word) - 1 <= Len(txt)
    /\ \A j \in 1..Len(word) : txt[i + j - 1] = word[j]

\* the place after the run of literal characters that starts at i
LiteralRunEnd(txt, i) ==
    IF \A j \in i..Len(txt) : IsLiteralChar(txt[j])
    THEN (IF i > Len(txt) THEN i ELSE Len(txt) + 1)
    ELSE CHOOSE j \in i..Len(txt) :
             ~IsLiteralChar(txt[j]) /\ \A k \in i..(j - 1) : IsLiteralChar(txt[k])

\* the characters of a string literal, from the one after the opening quote:
\* a run of literal characters stands for itself, and what comes after it is
\* the end of the literal, an escape or an error
RECURSIVE ParseChars(_, _, _)
RECURSIVE ParseCharsAfter(_, _, _)

ParseLiteralRun(txt, i, j, acc) == ParseCharsAfter(txt, j, acc \o SubSeq(txt, i, j - 1))

ParseChars(txt, i, acc) == ParseLiteralRun(txt, i, LiteralRunEnd(txt, i), acc)

ParseCharsAfter(txt, i, acc) ==
    LET c == At(txt, i) IN
    IF c = "EOF" \/ IsControlChar(c) THEN Bad
    ELSE IF c = QUOTE THEN Ok(acc, i + 1)
    ELSE IF c = BACKSLASH THEN
         LET e == At(txt, i + 1) IN
         CASE e = QUOTE \/ e = BACKSLASH \/ e = "/" ->
                ParseChars(txt, i + 2, Append(acc, e))
           [] e = "b" -> ParseChars(txt, i + 2, Append(acc, BS))
           [] e = "f" -> ParseChars(txt, i + 2, Append(acc, FF))
           [] e = "n" -> ParseChars(txt, i + 2, Append(acc, LF))
           [] e = "r" -> ParseChars(txt, i + 2, Append(acc, CR))
           [] e = "t" -> ParseChars(txt, i + 2, Append(acc, TAB))
           [] e = "u" ->
                (LET u == ParseHex4(txt, i + 2) IN
                 IF u.ok THEN ParseChars(txt, u.i, Append(acc, u.v)) ELSE Bad)
           [] OTHER -> Bad
    ELSE ParseChars(txt, i + 1, Append(acc, c))

\* the place after the run of digits that starts at i
ScanDigits(txt, i) ==
    IF \A j \in i..Len(txt) : IsDigit(txt[j]) THEN (IF i > Len(txt) THEN i ELSE Len(txt) + 1)
    ELSE CHOOSE j \in i..Len(txt) : ~IsDigit(txt[j]) /\ \A k \in i..(j - 1) : IsDigit(txt[k])

\* a run of digits without its leading zeros
StripLeadingZeros(ds) ==
    IF \A i \in 1..Len(ds) : ds[i] = "0" THEN <<>>
    ELSE SubSeq(ds, CHOOSE i \in 1..Len(ds) : ds[i] # "0" /\ \A k \in 1..(i - 1) : ds[k] = "0",
                Len(ds))

\* the number of zeros a run of digits ends with
TrailingZeros(ds) ==
    IF \A i \in 1..Len(ds) : ds[i] = "0" THEN Len(ds)
    ELSE Len(ds) - (CHOOSE i \in 1..Len(ds) :
                        ds[i] # "0" /\ \A k \in (i + 1)..Len(ds) : ds[k] = "0")

(***************************************************************************)
(* Number values: IEEE 754 binary64                                        *)
(***************************************************************************)
\* A natural number of any size: its digits in base 10000, the lowest
\* first, without a zero on top (TLC's own integers end at 2^31 - 1)
Base == 10000

Max(x, y) == IF x >= y THEN x ELSE y
Min(x, y) == IF x <= y THEN x ELSE y

BigOne == <<1>>
BigLimb(a, i) == IF i >= 1 /\ i <= Len(a) THEN a[i] ELSE 0
BigIsOdd(a) == a # <<>> /\ a[1] % 2 = 1

\* a without the zeros on top
BigTrim(a) ==
    IF a = <<>> \/ (\A i \in 1..Len(a) : a[i] = 0) THEN <<>>
    ELSE SubSeq(a, 1, Len(a) - (CHOOSE k \in 0..(Len(a) - 1) :
                                    a[Len(a) - k] # 0 /\ \A t \in 0..(k - 1) : a[Len(a) - t] = 0))

\* the number a run of decimal digits writes
BigOfText(ds) ==
    BigTrim([j \in 1..((Len(ds) + 3) \div 4) |->
                TextToNat(SubSeq(ds, Max(Len(ds) - 4 * j + 1, 1), Len(ds) - 4 * (j - 1)), 0)])

\* the decimal digits of a: four of each place, the highest place first
BigToText(a) ==
    IF a = <<>> THEN <<"0">>
    ELSE StripLeadingZeros([p \in 1..(4 * Len(a)) |->
                               Pad(a[Len(a) - ((p - 1) \div 4)], 4)[((p - 1) % 4) + 1]])

\* -1, 0 or 1 as a is below, equal to or above b: the longer one is above,
\* and of two of one length the one above at the highest place they differ in
BigCmpAt(a, b, i) == IF a[i] < b[i] THEN -1 ELSE 1

BigCmp(a, b) ==
    CASE a = b -> 0
      [] Len(a) < Len(b) -> -1
      [] Len(a) > Len(b) -> 1
      [] OTHER ->
           BigCmpAt(a, b, Len(a) - (CHOOSE k \in 0..(Len(a) - 1) :
                                        /\ a[Len(a) - k] # b[Len(a) - k]
                                        /\ \A t \in 0..(k - 1) : a[Len(a) - t] = b[Len(a) - t]))

BigLeq(a, b) == BigCmp(a, b) <= 0

\* The places of a sum before anything is carried, s, are below 2 * Base - 1
\* each, so that a place carries one at most: it does when it holds Base or
\* more, and when it holds Base - 1 and is carried into.  The place i is
\* carried into when the nearest place below it that does not hold Base - 1,
\* k places down, holds Base or more.
CarriesAt(s, i, k) == k < i /\ s[i - k] >= Base

CarriedInto(s, i) ==
    CarriesAt(s, i, CHOOSE k \in 1..i : /\ k = i \/ s[i - k] # Base - 1
                                        /\ \A t \in 1..(k - 1) : s[i - t] = Base - 1)

Carried(s) ==
    IF s = <<>> THEN <<>>
    ELSE BigTrim([i \in 1..(Len(s) + 1) |->
                     (BigLimb(s, i) + (IF CarriedInto(s, i) THEN 1 ELSE 0)) % Base])

BigAdd(a, b) ==
    CASE a = <<>> -> b
      [] b = <<>> -> a
      [] OTHER -> Carried([i \in 1..Max(Len(a), Len(b)) |-> BigLimb(a, i) + BigLimb(b, i)])

\* a * k, for k up to the base: a place of the product is the low half of
\* that place of a times k and the high half of the place below times k
BigMulSmall(a, k) ==
    CASE a = <<>> \/ k = 0 -> <<>>
      [] k = 1 -> a
      [] OTHER -> Carried([i \in 1..(Len(a) + 1) |->
                              ((BigLimb(a, i) * k) % Base) + ((BigLimb(a, i - 1) * k) \div Base)])

\* The places of a difference before anything is borrowed, d, are above
\* -Base and below Base.  The place i is borrowed from when the nearest place
\* below it that does not hold 0, k places down, holds less than 0.
BorrowsAt(d, i, k) == k < i /\ d[i - k] < 0

BorrowedFrom(d, i) ==
    BorrowsAt(d, i, CHOOSE k \in 1..i : /\ k = i \/ d[i - k] # 0
                                        /\ \A t \in 1..(k - 1) : d[i - t] = 0)

Borrowed(d) ==
    IF d = <<>> THEN <<>>
    ELSE BigTrim([i \in 1..Len(d) |->
                     (d[i] - (IF BorrowedFrom(d, i) THEN 1 ELSE 0) + Base) % Base])

\* a - b, for a >= b
BigSub(a, b) ==
    IF a = <<>> \/ b = <<>> THEN a
    ELSE Borrowed([i \in 1..Len(a) |-> BigLimb(a, i) - BigLimb(b, i)])

\* a * Base^j
BigShift(a, j) == IF a = <<>> THEN <<>> ELSE [i \in 1..j |-> 0] \o a

\* a times the places lo..hi of b, one half of them after the other
RECURSIVE BigMulBy(_, _, _, _)
BigMulBy(a, b, lo, hi) ==
    IF lo = hi THEN BigShift(BigMulSmall(a, b[lo]), lo - 1)
    ELSE BigAdd(BigMulBy(a, b, lo, (lo + hi) \div 2),
                BigMulBy(a, b, ((lo + hi) \div 2) + 1, hi))

BigMul(a, b) ==
    CASE a = <<>> \/ b = <<>> -> <<>>
      [] a = BigOne -> b
      [] b = BigOne -> a
      [] Len(a) >= Len(b) -> BigMulBy(a, b, 1, Len(b))
      [] OTHER -> BigMulBy(b, a, 1, Len(a))

\* 10^n
TenTo(n) == [i \in 1..(n \div 4) |-> 0] \o <<10 ^ (n % 4)>>

\* a * 10^n
BigMulPow10(a, n) == BigShift(BigMulSmall(a, 10 ^ (n % 4)), n \div 4)

\* a * 2^n, one half of the exponent after the other
RECURSIVE BigMulPow2(_, _)
BigMulPow2(a, n) ==
    CASE a = <<>> -> <<>>
      [] n <= 13 -> BigMulSmall(a, 2 ^ n)
      [] OTHER -> BigMulPow2(BigMulPow2(a, n \div 2), n - (n \div 2))

\* the powers of two below 2^71
Pow2 == [b \in 0..70 |-> BigMulPow2(BigOne, b)]

\* the integer part of a / 2^n, for n up to 4: the base is a multiple of 2^4,
\* and a / 2^n is a * (Base / 2^n) without its lowest place
BigHalved(a, n) ==
    IF n = 0 THEN a
    ELSE SubSeq(BigMulSmall(a, Base \div (2 ^ n)), 2, Len(BigMulSmall(a, Base \div (2 ^ n))))

\* the number of binary digits of a number below 2^70: one of five places at
\* most, each place being worth more than 13 binary digits and less than 14
BitLength(a) ==
    IF a = <<>> THEN 0
    ELSE CHOOSE b \in (13 * (Len(a) - 1) + 1)..(14 * Len(a)) :
             BigLeq(Pow2[b - 1], a) /\ BigCmp(a, Pow2[b]) < 0

\* A division: the integer part q of a quotient and what is left of it, as
\* the fraction r / d
Division(q, r, d) == [q |-> q, r |-> r, d |-> d]

\* Long division (Knuth, The Art of Computer Programming, 4.3.1, algorithm
\* D).  The two highest places of rem divided by the highest place of d:
\* when that place is Base / 2 at least, the digit of the quotient for
\* rem / d, rem being below d * Base, is this one or one of the two below it
EstimatedDigit(rem, d) ==
    Min((BigLimb(rem, Len(d) + 1) * Base + BigLimb(rem, Len(d))) \div BigLimb(d, Len(d)), Base - 1)

\* the digit: the largest one whose product with d is within rem
QuotientDigit(rem, d, estimate) ==
    CHOOSE digit \in Max(estimate - 2, 0)..estimate :
        /\ BigLeq(BigMulSmall(d, digit), rem)
        /\ digit = estimate \/ ~BigLeq(BigMulSmall(d, digit + 1), rem)

\* a * Base + limb
BigPush(a, limb) == IF a = <<>> /\ limb = 0 THEN <<>> ELSE <<limb>> \o a

DivisionWith(rem, quot, d, digit) ==
    Division(<<digit>> \o quot, BigSub(rem, BigMulSmall(d, digit)), d)

\* one more place of the dividend taken into the division
DivisionStep(st, limb) ==
    DivisionWith(BigPush(st.r, limb), st.q, st.d,
                 QuotientDigit(BigPush(st.r, limb), st.d,
                               EstimatedDigit(BigPush(st.r, limb), st.d)))

\* the places i and below of the dividend a taken into the division st, the
\* highest first; when nothing is left and the places to come are zeros, so
\* are the digits to come
RECURSIVE LongDivFrom(_, _, _)
LongDivFrom(a, i, st) ==
    CASE i = 0 -> Division(BigTrim(st.q), st.r, st.d)
      [] st.r = <<>> /\ \A k \in 1..i : BigLimb(a, k) = 0 ->
           Division(BigTrim([k \in 1..i |-> 0] \o st.q), <<>>, st.d)
      [] OTHER -> LongDivFrom(a, i - 1, DivisionStep(st, BigLimb(a, i)))

\* a / d for d with a highest place of Base / 2 at least: the places of a
\* above the first digit of the quotient are below d
LongDivScaled(a, d) ==
    IF Len(a) < Len(d) THEN Division(<<>>, a, d)
    ELSE LongDivFrom(a, Len(a) - Len(d) + 1,
                     Division(<<>>, SubSeq(a, Len(a) - Len(d) + 2, Len(a)), d))

\* a / b, for b above zero: both are multiplied by what brings the highest
\* place of b to Base / 2 at least
LongDiv(a, b) ==
    IF a = <<>> \/ b = BigOne THEN Division(a, <<>>, b)
    ELSE LongDivScaled(BigMulSmall(a, Base \div (BigLimb(b, Len(b)) + 1)),
                       BigMulSmall(b, Base \div (BigLimb(b, Len(b)) + 1)))

\* A finite Number that is not zero is m * 2^q with m below 2^53, and
\* 2^52 <= m unless q = -1074 (the subnormal Numbers); the largest is
\* (2^53 - 1) * 2^971
MinExponent == -1074
MaxExponent == 971
Double(m, q) == [m |-> m, q |-> q]

\* m is the integer part of a quotient and half says whether the rest is
\* below (-1), equal to (0) or above (1) one half: the integer nearest to the
\* quotient, the even one of the two when it is half way between them
\* (roundTiesToEven)
RoundTiesToEven(m, half) ==
    IF half > 0 \/ (half = 0 /\ BigIsOdd(m)) THEN BigAdd(m, BigOne) ELSE m

\* m * 2^q with m brought back below 2^53
Renormalized(m, q) == IF m = Pow2[53] THEN Double(Pow2[52], q + 1) ELSE Double(m, q)

\* what is left of a division against one half
HalfOf(st) == BigCmp(BigMulSmall(st.r, 2), st.d)

\* the same once the last n binary digits of the integer part, rest, have
\* been taken off it
HalfWith(rest, n, st) ==
    CASE rest > 2 ^ (n - 1) -> 1
      [] rest < 2 ^ (n - 1) -> -1
      [] OTHER -> IF st.r = <<>> THEN 0 ELSE 1

\* st is a value in units of 2^q, with n binary digits more than 53 in its
\* integer part (n is 1 to 4): the value rounded to 53 binary digits
RoundedBy(st, q, n) ==
    Renormalized(RoundTiesToEven(BigHalved(st.q, n), HalfWith(BigLimb(st.q, 1) % (2 ^ n), n, st)),
                 q + n)

\* a value in units of 2^q rounded to 53 binary digits
Rounded(st, q) ==
    IF BitLength(st.q) <= 53 THEN Renormalized(RoundTiesToEven(st.q, HalfOf(st)), q)
    ELSE RoundedBy(st, q, BitLength(st.q) - 53)

\* For a value between 10^(n - 1) and 10^n: an exponent q, MinExponent at
\* least, with the value below 2^(q + 57), and not below 2^(q + 52) unless q
\* is MinExponent.  10^(n - 1) is 2^k or more for k = (n - 1) * 3.321
\* rounded down ((n - 1) * 3.322 when that is negative), and 10^n is below
\* 2^(k + 5).
BinaryExponentOf(n) ==
    Max(FloorDiv((n - 1) * (IF n >= 1 THEN 3321 ELSE 3322), 1000) - 52, MinExponent)

\* ds * 10^e in units of 2^q
InUnitsOf(ds, e, q) ==
    LongDiv(BigMulPow2(BigMulPow10(BigOfText(ds), Max(e, 0)), Max(0 - q, 0)),
            BigMulPow2(TenTo(Max(0 - e, 0)), Max(q, 0)))

RoundedAt(ds, e, q) == Rounded(InUnitsOf(ds, e, q), q)

\* the Number value of ds * 10^e, ds being decimal digits that do not start
\* with a zero and Len(ds) + e being between -324 and 310: the double
\* nearest to it, m = 0 when that is zero, q above MaxExponent when it is
\* infinite
ToDouble(ds, e) == RoundedAt(ds, e, BinaryExponentOf(Len(ds) + e))

\* The decimals that denote the double m * 2^q lie between the middle to
\* the double below and the middle to the double above, the two middles
\* included when m is even.  In units of 2^(q - 2): the double below is
\* nearer when m = 2^52, except among the subnormal Numbers.
LowerMiddle(m, q) ==
    IF m = Pow2[52] /\ q > MinExponent
    THEN BigSub(BigMulSmall(m, 4), BigOne)
    ELSE BigSub(BigMulSmall(m, 4), <<2>>)

UpperMiddle(m, q) == BigAdd(BigMulSmall(m, 4), <<2>>)

\* the least and the largest integer between two middles, each given as a
\* division (closed: the middles themselves are between them)
LeastFrom(st, closed) == IF closed /\ st.r = <<>> THEN st.q ELSE BigAdd(st.q, BigOne)
LargestTo(st, closed) == IF closed \/ st.r # <<>> THEN st.q ELSE BigSub(st.q, BigOne)

\* the integer cs * 10^j is one of those from low to high
Denotes(cs, j, low, high) ==
    BigLeq(low, BigOfText(cs \o Zeros(j))) /\ BigLeq(BigOfText(cs \o Zeros(j)), high)

AllZeros(ds) == \A i \in 1..Len(ds) : ds[i] = "0"

\* a run of digits increased by one
Successor(ds) == BigToText(BigAdd(BigOfText(ds), BigOne))

\* ds * 10^e without the zeros ds ends with
Shortened(ds, e) ==
    [ds |-> SubSeq(ds, 1, Len(ds) - TrailingZeros(ds)), e |-> e + TrailingZeros(ds)]

\* A Number among the decimals: digits are the digits of its integer part
\* in some unit (exact: the Number is that integer), and the decimals that
\* denote it are the integers low to high of that unit
Around(value, low, high, closed) ==
    [digits |-> BigToText(value.q), exact |-> value.r = <<>>,
     low |-> LeastFrom(low, closed), high |-> LargestTo(high, closed)]

\* Of the two decimals of k digits next to the value, the first k digits
\* and their successor, the successor is the nearer one when what follows
\* the k digits is above one half, or is one half and the k-th digit is odd
RoundsUp(digits, exact, k) ==
    /\ k < Len(digits)
    /\ \/ DigitValue(digits[k + 1]) > 5
       \/ /\ digits[k + 1] = "5"
          /\ \/ ~AllZeros(SubSeq(digits, k + 2, Len(digits)))
             \/ ~exact
             \/ DigitValue(digits[k]) % 2 = 1

\* one of the two decimals of k digits next to the value is among the
\* integers from low to high
DenotesWith(nb, k) ==
    \/ Denotes(SubSeq(nb.digits, 1, k), Len(nb.digits) - k, nb.low, nb.high)
    \/ Denotes(Successor(SubSeq(nb.digits, 1, k)), Len(nb.digits) - k, nb.low, nb.high)

\* Number::toString, step 5: the digits s and the exponent with s * 10^e
\* being denoted by the Number, s as short as possible and, of the shortest,
\* the one nearest to the Number.  The unit of nb is 10^e, and k digits are
\* the fewest that denote the Number.
ShortestWith(nb, e, k) ==
    IF /\ RoundsUp(nb.digits, nb.exact, k)
       /\ Denotes(Successor(SubSeq(nb.digits, 1, k)), Len(nb.digits) - k, nb.low, nb.high)
    THEN Shortened(Successor(SubSeq(nb.digits, 1, k)), e + Len(nb.digits) - k)
    ELSE IF Denotes(SubSeq(nb.digits, 1, k), Len(nb.digits) - k, nb.low, nb.high)
    THEN Shortened(SubSeq(nb.digits, 1, k), e + Len(nb.digits) - k)
    ELSE Shortened(Successor(SubSeq(nb.digits, 1, k)), e + Len(nb.digits) - k)

\* a decimal of k digits that denotes the Number denotes it with a zero
\* added too: the fewest digits are the first k that do
ShortestOf(nb, e) ==
    ShortestWith(nb, e, CHOOSE k \in 1..Len(nb.digits) :
                            /\ DenotesWith(nb, k)
                            /\ k = 1 \/ ~DenotesWith(nb, k - 1))

\* units of 10^(n - 18) as num / den quarters of 2^q
QuartersIn(q, n) ==
    [num |-> BigMulPow2(TenTo(Max(18 - n, 0)), Max(q - 2, 0)),
     den |-> BigMulPow2(TenTo(Max(n - 18, 0)), Max(2 - q, 0))]

\* the Number m * 2^q and the two middles in the units of u
AroundDouble(m, q, u) ==
    Around(LongDiv(BigMul(u.num, BigMulSmall(m, 4)), u.den),
           LongDiv(BigMul(u.num, LowerMiddle(m, q)), u.den),
           LongDiv(BigMul(u.num, UpperMiddle(m, q)), u.den),
           ~BigIsOdd(m))

\* for a Number between 10^(n - 1) and 10^(n + 1): in units of 10^(n - 18)
\* its integer part has 18 digits or 19, one more than it takes to tell any
\* Number from its neighbours
ShortestAt(m, q, n) == ShortestOf(AroundDouble(m, q, QuartersIn(q, n)), n - 18)

\* 10^(n - 1) is 2^k or less for n - 1 = k * 0.30102 rounded down
\* (k * 0.30103 when that is negative), and 2^(k + 1) is below 10^(n + 1)
DecimalExponentOf(k) == FloorDiv(k * (IF k >= 0 THEN 30102 ELSE 30103), 100000) + 1

\* the shortest decimal of the double x, which lies between 2^k and
\* 2^(k + 1) for k = q + the number of binary digits of m - 1
ShortestDecimal(x) == ShortestAt(x.m, x.q, DecimalExponentOf(x.q + BitLength(x.m) - 1))

\* the value that stands for the Number sign * ds * 10^e, ds being its
\* shortest digits
NumberOf(neg, ds, e) ==
    IF e >= 0 /\ NumeralLess(ds \o Zeros(e), <<"2", "1", "4", "7", "4", "8", "3", "6", "4", "8">>)
    THEN Num((IF neg THEN -1 ELSE 1) * TextToNat(ds \o Zeros(e), 0))
    ELSE Dec(neg, ds, e)

\* the value that stands for a double
ShortestNumber(neg, s) == NumberOf(neg, s.ds, s.e)

Zero(neg) == IF neg THEN NegZero ELSE Num(0)

NumberOfDouble(neg, x) ==
    CASE x.m = <<>> -> Zero(neg)
      [] x.m # <<>> /\ x.q > MaxExponent -> Inf(neg)
      [] OTHER -> ShortestNumber(neg, ShortestDecimal(x))

\* StringToNumber of a decimal literal with the significant digits ds (no
\* zero at either end) and the exponent e: the double nearest to ds * 10^e.
\* Anything below 10^-324 is nearer to zero than to the smallest Number,
\* anything from 10^310 is above the largest; a decimal of 15 digits or less
\* that is well inside the range of the normal Numbers is the shortest one
\* of its double.
NumberValue(neg, ds, e) ==
    CASE ds = <<>> \/ Len(ds) + e < -324 -> Zero(neg)
      [] ds # <<>> /\ Len(ds) + e > 310 -> Inf(neg)
      [] ds # <<>> /\ Len(ds) <= 15 /\ Len(ds) + e >= -290 /\ Len(ds) + e <= 290 ->
           NumberOf(neg, ds, e)
      [] OTHER -> NumberOfDouble(neg, ToDouble(ds, e))

\* the Number of a literal with the digits ds (integer and fraction
\* together) and the decimal exponent e
NumberOfDigits(neg, ds, e) ==
    NumberValue(neg,
                SubSeq(StripLeadingZeros(ds), 1,
                       Len(StripLeadingZeros(ds)) - TrailingZeros(StripLeadingZeros(ds))),
                IF StripLeadingZeros(ds) = <<>> THEN 0
                ELSE e + TrailingZeros(StripLeadingZeros(ds)))

\* the number an exponent's digits write, or 10000000 when it is above
\* that, which is beyond every Number either way
ExponentValue(ds) ==
    IF Len(StripLeadingZeros(ds)) > 7 THEN 10000000
    ELSE TextToNat(StripLeadingZeros(ds), 0)

\* a number literal as the text writes it: its sign, its digits (integer
\* and fraction together) and its decimal exponent
Literal(neg, ds, e) == [t |-> "literal", neg |-> neg, ds |-> ds, e |-> e]

\* the exponent part from i, if there is one: [eE] [+-]? digit+
ParseExponent(txt, i, neg, ds, fracLen) ==
    IF At(txt, i) \notin {"e", "E"} THEN Ok(Literal(neg, ds, 0 - fracLen), i)
    ELSE LET j == IF At(txt, i + 1) \in {"+", "-"} THEN i + 2 ELSE i + 1
             k == ScanDigits(txt, j)
         IN  IF k = j THEN Bad
             ELSE Ok(Literal(neg, ds,
                             (IF At(txt, i + 1) = "-" THEN -1 ELSE 1)
                               * ExponentValue(SubSeq(txt, j, k - 1)) - fracLen),
                     k)

\* the fraction part from i, if there is one: . digit+
ParseFraction(txt, i, neg, ds) ==
    IF At(txt, i) # "." THEN ParseExponent(txt, i, neg, ds, 0)
    ELSE LET k == ScanDigits(txt, i + 1) IN
         IF k = i + 1 THEN Bad
         ELSE ParseExponent(txt, k, neg, ds \o SubSeq(txt, i + 1, k - 1), k - i - 1)

\* a number literal: -? (0 | [1-9][0-9]*) (. [0-9]+)? ([eE] [+-]? [0-9]+)?
ParseNumber(txt, i) ==
    LET neg == At(txt, i) = "-"
        j == IF neg THEN i + 1 ELSE i
    IN  IF ~IsDigit(At(txt, j)) THEN Bad
        ELSE IF At(txt, j) = "0" THEN ParseFraction(txt, j + 1, neg, <<"0">>)
        ELSE ParseFraction(txt, ScanDigits(txt, j), neg,
                           SubSeq(txt, j, ScanDigits(txt, j) - 1))

RECURSIVE ParseValue(_, _)
RECURSIVE ParseMembers(_, _, _)
RECURSIVE ParseElements(_, _, _)
ParseValue(txt, i0) ==
    LET i == SkipWs(txt, i0)
        c == At(txt, i)
    IN  CASE c = "{" ->
               (IF At(txt, SkipWs(txt, i + 1)) = "}"
                THEN Ok(Obj(0, <<>>), SkipWs(txt, i + 1) + 1)
                ELSE ParseMembers(txt, i + 1, <<>>))
          [] c = "[" ->
               (IF At(txt, SkipWs(txt, i + 1)) = "]"
                THEN Ok(Arr(<<>>), SkipWs(txt, i + 1) + 1)
                ELSE ParseElements(txt, i + 1, <<>>))
          [] c = QUOTE ->
               (LET r == ParseChars(txt, i + 1, <<>>)
                IN  IF r.ok THEN Ok(Str(r.v), r.i) ELSE Bad)
          [] c = "-" \/ IsDigit(c) -> ParseNumber(txt, i)
          [] MatchesAt(txt, i, <<"t", "r", "u", "e">>) -> Ok(Bool(TRUE), i + 4)
          [] MatchesAt(txt, i, <<"f", "a", "l", "s", "e">>) ->
               Ok(Bool(FALSE), i + 5)
          [] MatchesAt(txt, i, <<"n", "u", "l", "l">>) -> Ok(Null, i + 4)
          [] OTHER -> Bad

\* members of an object from position i0: "key" : value (, ...)* }
\* a repeated key keeps its first place and takes the last value; integer
\* indices come first, in ascending order
ParseMembers(txt, i0, kv) ==
    LET i == SkipWs(txt, i0) IN
    IF At(txt, i) # QUOTE THEN Bad
    ELSE LET k == ParseChars(txt, i + 1, <<>>) IN
         IF ~k.ok THEN Bad
         ELSE LET j == SkipWs(txt, k.i) IN
              IF At(txt, j) # ":" THEN Bad
              ELSE LET v == ParseValue(txt, j + 1) IN
                   IF ~v.ok THEN Bad
                   ELSE LET n == SkipWs(txt, v.i)
                            kv2 == KvSet(kv, k.v, v.v)
                        IN  IF At(txt, n) = "," THEN ParseMembers(txt, n + 1, kv2)
                            ELSE IF At(txt, n) = "}" THEN Ok(Obj(0, kv2), n + 1)
                            ELSE Bad

ParseElements(txt, i0, a) ==
    LET v == ParseValue(txt, i0) IN
    IF ~v.ok THEN Bad
    ELSE LET n == SkipWs(txt, v.i)
             a2 == Append(a, v.v)
         IN  IF At(txt, n) = "," THEN ParseElements(txt, n + 1, a2)
             ELSE IF At(txt, n) = "]" THEN Ok(Arr(a2), n + 1)
             ELSE Bad

\* the value a text denotes, with the Number of each number literal in it
RECURSIVE WithNumbers(_)
WithNumbers(v) ==
    CASE v.t = "literal" -> NumberOfDigits(v.neg, v.ds, v.e)
      [] v.t = "obj" ->
           Obj(v.id, [i \in 1..Len(v.kv) |-> <<v.kv[i][1], WithNumbers(v.kv[i][2])>>])
      [] v.t = "arr" -> Arr([i \in 1..Len(v.a) |-> WithNumbers(v.a[i])])
      [] OTHER -> v

\* JSON.parse: the value, or Throw for a SyntaxError
JSONParse(txt) ==
    LET r == ParseValue(txt, 1) IN
    IF r.ok /\ SkipWs(txt, r.i) = Len(txt) + 1 THEN WithNumbers(r.v) ELSE Throw


(***************************************************************************)
(* globalReplace functions                                                 *)
(***************************************************************************)
\* length of the phone-number prefix (\+ or %2B, case-insensitive) at i, or 0
PhonePrefixLen(txt, i) ==
    IF At(txt, i) = "+" THEN 1
    ELSE IF /\ At(txt, i) = "%"
            /\ At(txt, i + 1) = "2"
            /\ At(txt, i + 2) \in {"B", "b"} THEN 3
    ELSE 0

\* number of digits from position i, at most max (greedy \d{1,14})
RECURSIVE DigitRun(_, _, _)
DigitRun(txt, i, max) ==
    IF max > 0 /\ IsDigit(At(txt, i)) THEN 1 + DigitRun(txt, i + 1, max - 1)
    ELSE 0

\* length of the match of /(?:\+|%2B)[1-9]\d{1,14}/i starting at i, or 0
PhoneMatchLen(txt, i) ==
    LET p == PhonePrefixLen(txt, i) IN
    IF p = 0 THEN 0
    ELSE IF ~(IsDigit(At(txt, i + p)) /\ At(txt, i + p) # "0") THEN 0
    ELSE LET d == DigitRun(txt, i + p + 1, 14)
         IN  IF d = 0 THEN 0 ELSE p + 1 + d

\* concatenation of parts[lo..hi]
RECURSIVE ConcatRange(_, _, _)
ConcatRange(parts, lo, hi) ==
    IF lo > hi THEN <<>>
    ELSE IF lo = hi THEN parts[lo]
    ELSE LET mid == (lo + hi) \div 2
         IN  ConcatRange(parts, lo, mid) \o ConcatRange(parts, mid + 1, hi)

\* the start of the phone-number match that covers position i, or 0.  A
\* match begins with + or % and goes on with 2, B and digits only, so no
\* match begins inside another one and the matches of the global regular
\* expression are exactly the positions where the pattern matches.
PhoneMatchCovering(txt, i) ==
    LET starts == {s \in (IF i > 17 THEN i - 17 ELSE 1)..i :
                      /\ txt[s] \in {"+", "%"}
                      /\ PhoneMatchLen(txt, s) > i - s}
    IN  IF starts = {} THEN 0 ELSE CHOOSE s \in starts : TRUE

\* what the replacement leaves of position i: the character itself outside
\* a match; inside a match all but the last four characters are kept and
\* XXXX is appended after its last character
PhoneOut(txt, i) ==
    LET s == PhoneMatchCovering(txt, i) IN
    IF s = 0 THEN <<txt[i]>>
    ELSE LET m == PhoneMatchLen(txt, s) IN
         (IF i - s < m - 4 THEN <<txt[i]>> ELSE <<>>)
         \o (IF i = s + m - 1 THEN <<"X", "X", "X", "X">> ELSE <<>>)

\* value.replace(/(?:\+|%2B)[1-9]\d{1,14}/gi,
\*               (phoneNumber) => phoneNumber.slice(0, -4) + 'XXXX')
\* (src/src/logging.test.ts:22-30)
globalReplacePhoneNumbers(txt) ==
    ConcatRange([i \in 1..Len(txt) |-> PhoneOut(txt, i)], 1, Len(txt))

NameWord == <<"a", "n", "n">>

\* the start of the match of NameWord that covers position i, or 0 (no
\* occurrence of the word overlaps another one)
NameMatchCovering(txt, i) ==
    LET starts == {s \in (IF i > 2 THEN i - 2 ELSE 1)..i :
                      MatchesAt(txt, s, NameWord)}
    IN  IF starts = {} THEN 0 ELSE CHOOSE s \in starts : TRUE

NameOut(txt, i) ==
    LET s == NameMatchCovering(txt, i) IN
    IF s = 0 THEN <<txt[i]>>
    ELSE IF i = s THEN <<"n", "a", "m", "e">> ELSE <<>>

\* a globalReplace that hides a person's name behind the word "name":
\* (value) => value.replace(/ann/g, 'name')
globalReplaceNames(txt) ==
    ConcatRange([i \in 1..Len(txt) |-> NameOut(txt, i)], 1, Len(txt))

\* what the replacement leaves of position i: a run of digits becomes #
DigitOut(txt, i) ==
    IF ~IsDigit(txt[i]) THEN <<txt[i]>>
    ELSE IF i = 1 \/ ~IsDigit(txt[i - 1]) THEN <<"#">>
    ELSE <<>>

\* a globalReplace that masks every number: (value) => value.replace(/\d+/g, '#')
globalReplaceDigits(txt) ==
    ConcatRange([i \in 1..Len(txt) |-> DigitOut(txt, i)], 1, Len(txt))

\* redactConfig?.globalReplace ?? ((value) => value)
ApplyGlobalReplace(gr, txt) ==
    CASE gr = "none" -> txt
      [] gr = "phone" -> globalReplacePhoneNumbers(txt)
      [] gr = "names" -> globalReplaceNames(txt)
      [] gr = "digits" -> globalReplaceDigits(txt)


(***************************************************************************)
(* fast-redact, as built at src/src/logging.ts:72 with serialize: false:   *)
(* the redactor writes into the object it is given and returns it          *)
(***************************************************************************)
STAR == <<"*">>

\* the segments of a dotted path: 'a.*.c' is <<a, *, c>>
RECURSIVE SplitPath(_, _)
SplitPath(chars, cur) ==
    IF chars = <<>> THEN <<cur>>
    ELSE IF Head(chars) = "." THEN <<cur>> \o SplitPath(Tail(chars), <<>>)
    ELSE SplitPath(Tail(chars), Append(cur, Head(chars)))

PathSegments(path) == SplitPath(path, <<>>)

HasStar(segs) == \E i \in 1..Len(segs) : segs[i] = STAR

StarIndex(segs) == CHOOSE i \in 1..Len(segs) :
                      segs[i] = STAR /\ \A j \in 1..(i - 1) : segs[j] # STAR

\* characters of the model's texts that cannot be part of an identifier
NonIdentChars == {".", "-", " ", "+", "%", "/", "?", "=", ":", ",", ";", "{", "}",
                  "[", "]", "#", QUOTE, BACKSLASH, LF}

\* fast-redact's validator evaluates o.<path> as JavaScript: every segment of
\* a dotted path has to be a wildcard or an identifier
ValidSegment(seg) ==
    /\ seg # <<>>
    /\ \/ seg = STAR
       \/ /\ ~IsDigit(seg[1])
          /\ \A i \in 1..Len(seg) : seg[i] \notin NonIdentChars \cup {"*"}

ValidPath(path) ==
    \A i \in 1..Len(PathSegments(path)) : ValidSegment(PathSegments(path)[i])

\* variant of Validate that accepts every path
ValidateAny(paths) == TRUE

\* validate({ paths, serialize, censor }): false stands for the error
\* 'fast-redact - Invalid path' it throws
Validate(paths) == \A i \in 1..Len(paths) : ValidPath(paths[i])

\* DEFAULT_CENSOR
DefaultCensor == Str(<<"[", "R", "E", "D", "A", "C", "T", "E", "D", "]">>)

\* censor: '***REDACTED***' and censor: (_value) => '***REDACTED***'
CustomCensor ==
    Str(<<"*", "*", "*", "R", "E", "D", "A", "C", "T", "E", "D", "*", "*", "*">>)

\* slice(-4) of a string or an array
SliceLast4(s) == SubSeq(s, IF Len(s) > 4 THEN Len(s) - 3 ELSE 1, Len(s))

\* censor: (value) => typeof value === 'string' ? '*' + value.slice(-4) : '*'
censorKeepLast4(val) ==
    IF val.t = "str" THEN Str(<<"*">> \o SliceLast4(val.s)) ELSE Str(<<"*">>)

\* Array.prototype.join(','), which '*' + array calls: null and undefined
\* are written as nothing, an array by its own join, an object as
\* [object Object]
RECURSIVE ArrayJoin(_)
ArrayJoin(a) ==
    IF a = <<>> THEN <<>>
    ELSE LET x == Head(a)
             text == CASE x.t = "str" -> x.s
                       [] x.t \in {"num", "dec", "negzero", "inf"} -> NumberToText(x)
                       [] x.t = "big" -> IntToText(x.big)
                       [] x.t = "bool" -> (IF x.b THEN <<"t", "r", "u", "e">>
                                           ELSE <<"f", "a", "l", "s", "e">>)
                       [] x.t = "arr" -> ArrayJoin(x.a)
                       [] x.t = "obj" -> <<"[", "o", "b", "j", "e", "c", "t", " ", "O", "b", "j", "e", "c", "t", "]">>
                       [] OTHER -> <<>>
         IN  text \o (IF Len(a) > 1 THEN <<",">> \o ArrayJoin(Tail(a)) ELSE <<>>)

\* censor: (value) => '*' + value.slice(-4): strings and arrays have slice,
\* a TypeError on any other value
censorSlice(val) ==
    CASE val.t = "str" -> Str(<<"*">> \o SliceLast4(val.s))
      [] val.t = "arr" -> Str(<<"*">> \o ArrayJoin(SliceLast4(val.a)))
      [] OTHER -> Throw

IsCensorFct(c) == c \in {"constfn", "last4fn", "slicefn"}

\* the value written over a matched value
ApplyCensor(c, val) ==
    CASE c = "default" -> DefaultCensor
      [] c = "fixed" -> CustomCensor
      [] c = "constfn" -> CustomCensor
      [] c = "last4fn" -> censorKeepLast4(val)
      [] c = "slicefn" -> censorSlice(val)

\* get(o, p) of fast-redact's modifiers
RECURSIVE GetPath(_, _)
GetPath(o, segs) ==
    IF segs = <<>> \/ IsNullish(o) THEN o
    ELSE GetPath(GetProp(o, Head(segs)), Tail(segs))

\* o.a.b.c = val, written through the objects on the way
RECURSIVE SetPath(_, _, _)
SetPath(o, segs, val) ==
    IF segs = <<>> THEN val
    ELSE SetProp(o, Head(segs), SetPath(GetProp(o, Head(segs)), Tail(segs), val))

\* variant of StaticExists that takes every path as present
StaticExistsAlways(o, segs) == TRUE

\* redactTmpl: a path without wildcard is redacted when every hop is truthy
\* and the value at the path is neither null nor undefined
StaticExists(o, segs) ==
    /\ \A j \in 1..(Len(segs) - 1) : Truthy(GetPath(o, SubSeq(segs, 1, j)))
    /\ ~IsNullish(GetPath(o, segs))

StaticRedact(c, o, segs) ==
    IF ~StaticExists(o, segs) THEN o
    ELSE LET val == GetPath(o, segs) IN
         IF ~IsCensorFct(c) /\ val = ApplyCensor(c, val) THEN o
         ELSE SetPath(o, segs, ApplyCensor(c, val))

\* groupRedact: a path ending in a wildcard censors every property of the
\* target
CensorAll(c, target) ==
    CASE target.t = "obj" ->
           [target EXCEPT !.kv = [i \in 1..Len(target.kv) |->
               <<target.kv[i][1], ApplyCensor(c, target.kv[i][2])>>]]
      [] target.t = "arr" ->
           [target EXCEPT !.a = [i \in 1..Len(target.a) |->
               ApplyCensor(c, target.a[i])]]
      [] OTHER -> target

GroupRedact(c, o, before) ==
    LET target == GetPath(o, before) IN
    IF IsNullish(target) \/ target.t = "str" THEN o
    ELSE SetPath(o, before, CensorAll(c, target))

\* specialSet for the segments after the wildcard (none of them a wildcard):
\* walk down from n while the next key is present, and censor the last one
RECURSIVE SpecialWalk(_, _, _)
SpecialWalk(c, n, after) ==
    LET k == Head(after) IN
    IF IsNullish(n) \/ ~(TypeofObject(n) /\ HasProp(n, k)) THEN n
    ELSE LET ov == GetProp(n, k) IN
         IF Len(after) = 1
         THEN (LET nv == ApplyCensor(c, ov)
               IN  IF nv = ov \/ nv.t = "undef" THEN n ELSE SetProp(n, k, nv))
         ELSE IF ~TypeofObject(ov) THEN n
         ELSE SetProp(n, k, SpecialWalk(c, ov, Tail(after)))

SpecialSet(c, n, after) ==
    IF ~TypeofObject(n) THEN n ELSE SpecialWalk(c, n, after)

\* nestedRedact: a wildcard followed by more segments
NestedAll(c, target, after) ==
    CASE target.t = "obj" ->
           [target EXCEPT !.kv = [i \in 1..Len(target.kv) |->
               <<target.kv[i][1], SpecialSet(c, target.kv[i][2], after)>>]]
      [] target.t = "arr" ->
           [target EXCEPT !.a = [i \in 1..Len(target.a) |->
               SpecialSet(c, target.a[i], after)]]
      [] OTHER -> target

NestedRedact(c, o, before, after) ==
    LET target == GetPath(o, before) IN
    IF IsNullish(target) THEN o
    ELSE SetPath(o, before, NestedAll(c, target, after))

WildcardRedact(c, o, segs) ==
    LET star == StarIndex(segs)
        before == SubSeq(segs, 1, star - 1)
        after == SubSeq(segs, star + 1, Len(segs))
    IN  IF after = <<>> THEN GroupRedact(c, o, before)
        ELSE NestedRedact(c, o, before, after)

\* Array.from(new Set(paths))
RECURSIVE Dedup(_, _)
Dedup(paths, seen) ==
    IF paths = <<>> THEN <<>>
    ELSE IF Head(paths) \in seen THEN Dedup(Tail(paths), seen)
    ELSE <<Head(paths)>> \o Dedup(Tail(paths), seen \cup {Head(paths)})

RECURSIVE RedactStatics(_, _, _)
RedactStatics(c, o, paths) ==
    IF paths = <<>> THEN o
    ELSE LET segs == PathSegments(Head(paths)) IN
         RedactStatics(c, IF HasStar(segs) THEN o ELSE StaticRedact(c, o, segs),
                       Tail(paths))

RECURSIVE RedactWildcards(_, _, _)
RedactWildcards(c, o, paths) ==
    IF paths = <<>> THEN o
    ELSE LET segs == PathSegments(Head(paths)) IN
         RedactWildcards(c, IF HasStar(segs) THEN WildcardRedact(c, o, segs) ELSE o,
                         Tail(paths))

\* a censor function threw somewhere inside v
RECURSIVE HasThrow(_)
HasThrow(v) ==
    CASE v.t = "throw" -> TRUE
      [] v.t = "obj" -> \E i \in 1..Len(v.kv) : HasThrow(v.kv[i][2])
      [] v.t = "arr" -> \E i \in 1..Len(v.a) : HasThrow(v.a[i])
      [] OTHER -> FALSE

\* the exception of a censor function leaves redact
Rethrow(v) == IF HasThrow(v) THEN Throw ELSE v

\* redact(o): an exception thrown while its argument is computed passes
\* through; no paths, the redactor is the identity; a primitive throws
\* (strict); otherwise the paths without wildcard are redacted first, then
\* the wildcard paths, each in the configured order
Redact(cfg, o) ==
    LET paths == Dedup(cfg.paths, {}) IN
    IF IsThrow(o) THEN Throw
    ELSE IF paths = <<>> THEN o
    ELSE IF ~TypeofObject(o) \/ IsNullish(o) THEN Throw
    ELSE Rethrow(RedactWildcards(cfg.censor,
                                 RedactStatics(cfg.censor, o, paths), paths))

(***************************************************************************)
(* Property keys and fixed strings                                         *)
(***************************************************************************)
\* the property names used by the code (trace and spanId are LOGGING_TRACE_KEY
\* and LOGGING_SPAN_KEY of @google-cloud/logging-bunyan, rawHeader is _header)
K ==
    [ v |-> <<"v">>,
      level |-> <<"l", "e", "v", "e", "l">>,
      name |-> <<"n", "a", "m", "e">>,
      hostname |-> <<"h", "o", "s", "t", "n", "a", "m", "e">>,
      pid |-> <<"p", "i", "d">>,
      time |-> <<"t", "i", "m", "e">>,
      src |-> <<"s", "r", "c">>,
      msg |-> <<"m", "s", "g">>,
      req |-> <<"r", "e", "q">>,
      res |-> <<"r", "e", "s">>,
      method |-> <<"m", "e", "t", "h", "o", "d">>,
      url |-> <<"u", "r", "l">>,
      originalUrl |-> <<"o", "r", "i", "g", "i", "n", "a", "l", "U", "r", "l">>,
      query |-> <<"q", "u", "e", "r", "y">>,
      body |-> <<"b", "o", "d", "y">>,
      headers |-> <<"h", "e", "a", "d", "e", "r", "s">>,
      connection |-> <<"c", "o", "n", "n", "e", "c", "t", "i", "o", "n">>,
      remoteAddress |-> <<"r", "e", "m", "o", "t", "e", "A", "d", "d", "r", "e", "s", "s">>,
      remotePort |-> <<"r", "e", "m", "o", "t", "e", "P", "o", "r", "t">>,
      statusCode |-> <<"s", "t", "a", "t", "u", "s", "C", "o", "d", "e">>,
      header |-> <<"h", "e", "a", "d", "e", "r">>,
      rawHeader |-> <<"_", "h", "e", "a", "d", "e", "r">>,
      authorization |-> <<"a", "u", "t", "h", "o", "r", "i", "z", "a", "t", "i", "o", "n">>,
      pepper |-> <<"p", "e", "p", "p", "e", "r">>,
      a |-> <<"a">>,
      b |-> <<"b">>,
      c |-> <<"c">>,
      d |-> <<"d">>,
      e |-> <<"e">>,
      f |-> <<"f">>,
      n |-> <<"n">>,
      u |-> <<"u">>,
      ann |-> <<"a", "n", "n">>,
      list |-> <<"l", "i", "s", "t">>,
      phone |-> <<"p", "h", "o", "n", "e">>,
      err |-> <<"e", "r", "r">>,
      stack |-> <<"s", "t", "a", "c", "k">>,
      message |-> <<"m", "e", "s", "s", "a", "g", "e">>,
      code |-> <<"c", "o", "d", "e">>,
      signal |-> <<"s", "i", "g", "n", "a", "l">>,
      options |-> <<"o", "p", "t", "i", "o", "n", "s">>,
      json |-> <<"j", "s", "o", "n">>,
      isAxiosError |-> <<"i", "s", "A", "x", "i", "o", "s", "E", "r", "r", "o", "r">>,
      config |-> <<"c", "o", "n", "f", "i", "g">>,
      data |-> <<"d", "a", "t", "a">>,
      status |-> <<"s", "t", "a", "t", "u", "s">>,
      request |-> <<"r", "e", "q", "u", "e", "s", "t">>,
      response |-> <<"r", "e", "s", "p", "o", "n", "s", "e">>,
      trace |-> <<"l", "o", "g", "g", "i", "n", "g", ".", "g", "o", "o", "g", "l", "e", "a", "p", "i", "s", ".", "c", "o", "m", "/", "t", "r", "a", "c", "e">>,
      sampled |-> <<"l", "o", "g", "g", "i", "n", "g", ".", "g", "o", "o", "g", "l", "e", "a", "p", "i", "s", ".", "c", "o", "m", "/", "t", "r", "a", "c", "e", "_", "s", "a", "m", "p", "l", "e", "d">>,
      traceHeader |-> <<"x", "-", "c", "l", "o", "u", "d", "-", "t", "r", "a", "c", "e", "-", "c", "o", "n", "t", "e", "x", "t">>,
      httpRequest |-> <<"h", "t", "t", "p", "R", "e", "q", "u", "e", "s", "t">>,
      requestUrl |-> <<"r", "e", "q", "u", "e", "s", "t", "U", "r", "l">>,
      requestMethod |-> <<"r", "e", "q", "u", "e", "s", "t", "M", "e", "t", "h", "o", "d">>,
      responseSize |-> <<"r", "e", "s", "p", "o", "n", "s", "e", "S", "i", "z", "e">>,
      size |-> <<"s", "i", "z", "e">>,
      spanId |-> <<"l", "o", "g", "g", "i", "n", "g", ".", "g", "o", "o", "g", "l", "e", "a", "p", "i", "s", ".", "c", "o", "m", "/", "s", "p", "a", "n", "I", "d">> ]

\* bunyan's levels
TRACE == 10
DEBUG == 20
INFO == 30
WARN == 40
ERROR == 50
FATAL == 60

Levels == {TRACE, DEBUG, INFO, WARN, ERROR, FATAL}

\* the level names
N ==
    [ trace |-> <<"t", "r", "a", "c", "e">>,
      debug |-> <<"d", "e", "b", "u", "g">>,
      info |-> <<"i", "n", "f", "o">>,
      warn |-> <<"w", "a", "r", "n">>,
      error |-> <<"e", "r", "r", "o", "r">>,
      fatal |-> <<"f", "a", "t", "a", "l">> ]

LevelNames == {N.trace, N.debug, N.info, N.warn, N.error, N.fatal}

levelFromName(nm) ==
    CASE nm = N.trace -> TRACE
      [] nm = N.debug -> DEBUG
      [] nm = N.info -> INFO
      [] nm = N.warn -> WARN
      [] nm = N.error -> ERROR
      [] nm = N.fatal -> FATAL

\* bunyan's resolveLevel: a known name, or a non-negative integer; -1 stands
\* for the error it throws otherwise
resolveLevel(nameOrNum) ==
    CASE nameOrNum.t = "str" ->
           (IF nameOrNum.s \in LevelNames THEN levelFromName(nameOrNum.s) ELSE -1)
      [] nameOrNum.t = "num" -> (IF nameOrNum.n < 0 THEN -1 ELSE nameOrNum.n)
      [] OTHER -> -1

\* a || b
Or(x, y) == IF Truthy(x) THEN x ELSE y

\* a && b
And(x, y) == IF Truthy(x) THEN y ELSE x

(***************************************************************************)
(* createLogger: level, service name                                       *)
(***************************************************************************)
\* variant of getGoogleServiceName that knows App Engine only
getGoogleServiceNameGae(e) == e.GAE_SERVICE

\* src/src/logging.ts:24-26
getGoogleServiceName(e) == Or(e.GAE_SERVICE, e.K_SERVICE)

\* src/src/logging.ts:42
logLevel(level, e) == Or(Or(level, e.LOG_LEVEL), Str(N.info))

\* src/src/logging.ts:44-64
loggerName(e) ==
    IF Truthy(getGoogleServiceName(e)) THEN getGoogleServiceName(e)
    ELSE Str(<<"d", "e", "f", "a", "u", "l", "t">>)

(***************************************************************************)
(* Serializers (createDetailedRequestSerializers)                          *)
(***************************************************************************)
\* x?.key
OptGet(x, key) == IF IsNullish(x) THEN Undef ELSE GetProp(x, key)

\* variant of reqSerializer without the shape test
reqSerializerStrict(req) ==
    Obj(0, << <<K.method, GetProp(req, K.method)>>,
              <<K.url, Or(GetProp(req, K.originalUrl), GetProp(req, K.url))>> >>)

\* src/src/logging.ts:237-252
reqSerializer(req) ==
    IF ~Truthy(req) \/ ~Truthy(GetProp(req, K.method)) THEN req
    ELSE Obj(0, << <<K.method, GetProp(req, K.method)>>,
                   <<K.url, Or(GetProp(req, K.originalUrl), GetProp(req, K.url))>>,
                   <<K.query, GetProp(req, K.query)>>,
                   <<K.body, GetProp(req, K.body)>>,
                   <<K.headers, GetProp(req, K.headers)>>,
                   <<K.remoteAddress,
                     OptGet(GetProp(req, K.connection), K.remoteAddress)>>,
                   <<K.remotePort,
                     OptGet(GetProp(req, K.connection), K.remotePort)>> >>)

\* src/src/logging.ts:254-264
responseSerializer(res, includeBody) ==
    IF ~Truthy(res) \/ ~Truthy(GetProp(res, K.statusCode)) THEN res
    ELSE Obj(0, << <<K.statusCode, GetProp(res, K.statusCode)>>,
                   <<K.header, GetProp(res, K.rawHeader)>>,
                   <<K.headers, GetProp(res, K.headers)>> >>
                \o (IF includeBody THEN << <<K.body, GetProp(res, K.body)>> >>
                    ELSE <<>>))

\* variant of isGotError that asks for options only
isGotErrorOptions(err) == GetProp(err, K.options)

\* src/src/logging.ts:181-183
isGotError(err) ==
    And(GetProp(err, K.options), OptGet(GetProp(err, K.options), K.url))

\* src/src/logging.ts:186-193
makeFakeRequestFromGotOptions(gotOptions) ==
    Obj(0, << <<K.method, GetProp(gotOptions, K.method)>>,
              <<K.url, GetProp(gotOptions, K.url)>>,
              <<K.headers, GetProp(gotOptions, K.headers)>>,
              <<K.body, Or(GetProp(gotOptions, K.body), GetProp(gotOptions, K.json))>> >>)

\* src/src/logging.ts:197-199
isAxiosError(err) == And(GetProp(err, K.isAxiosError), GetProp(err, K.config))

\* try { body = JSON.parse(body) } catch {}
ParsedOr(body, parsed) == IF IsThrow(parsed) THEN body ELSE parsed

\* src/src/logging.ts:204-212: a body that is a JSON text is parsed, any
\* other body is kept
ParsedBody(body) ==
    IF body.t = "str" THEN ParsedOr(body, JSONParse(body.s)) ELSE body

\* src/src/logging.ts:202-219
makeFakeRequestFromAxiosConfig(axiosConfig) ==
    Obj(0, << <<K.method, GetProp(axiosConfig, K.method)>>,
              <<K.url, GetProp(axiosConfig, K.url)>>,
              <<K.headers, GetProp(axiosConfig, K.headers)>>,
              <<K.body, ParsedBody(GetProp(axiosConfig, K.data))>> >>)

\* src/src/logging.ts:222-231
serializeAxiosResponse(axiosResponse) ==
    IF ~Truthy(axiosResponse) THEN axiosResponse
    ELSE Obj(0, << <<K.statusCode, GetProp(axiosResponse, K.status)>>,
                   <<K.headers, GetProp(axiosResponse, K.headers)>>,
                   <<K.body, GetProp(axiosResponse, K.data)>> >>)

\* Logger.stdSerializers.err of bunyan, for an error without cause()
stdSerializersErr(err) ==
    Obj(0, << <<K.message, GetProp(err, K.message)>>,
              <<K.name, GetProp(err, K.name)>>,
              <<K.stack, GetProp(err, K.stack)>>,
              <<K.code, GetProp(err, K.code)>>,
              <<K.signal, GetProp(err, K.signal)>> >>)

\* result.request = ...; result.response = ...
WithRequestResponse(result, request, response) ==
    Obj(0, result.kv \o << <<K.request, request>>, <<K.response, response>> >>)

\* the request an HTTP client error is about, in the shape reqSerializer takes
FakeRequest(err, got) ==
    IF got THEN makeFakeRequestFromGotOptions(GetProp(err, K.options))
    ELSE makeFakeRequestFromAxiosConfig(GetProp(err, K.config))

\* src/src/logging.ts:277-297: the request and response of a got or axios
\* error are added to the standard result
ErrResult(err, result) ==
    IF Truthy(isGotError(err))
    THEN WithRequestResponse(result, reqSerializer(FakeRequest(err, TRUE)),
                             responseSerializer(GetProp(err, K.response), TRUE))
    ELSE IF Truthy(isAxiosError(err))
    THEN WithRequestResponse(result, reqSerializer(FakeRequest(err, FALSE)),
                             serializeAxiosResponse(GetProp(err, K.response)))
    ELSE result

\* src/src/logging.ts:268-300
errSerializer(err) ==
    IF ~Truthy(err) \/ ~Truthy(GetProp(err, K.stack)) THEN err
    ELSE ErrResult(err, stdSerializersErr(err))

\* bunyan's _applySerializers for the serializers of this logger
ApplySerializer(key, val) ==
    CASE key = K.req -> reqSerializer(val)
      [] key = K.res -> responseSerializer(val, FALSE)
      [] key = K.err -> errSerializer(val)
      [] OTHER -> val

applySerializers(kv) ==
    [i \in 1..Len(kv) |->
        IF kv[i][2].t = "undef" THEN kv[i]
        ELSE <<kv[i][1], ApplySerializer(kv[i][1], kv[i][2])>>]

(***************************************************************************)
(* bunyan's mkRecord: the record a log call builds                         *)
(***************************************************************************)
HostName == Str(<<"h", "o", "s", "t">>)
Pid == Num(7)
\* new Date(): the clock advances with every log call
Now == DateVal(nCalls)

\* Object.assign(target, source) / copying own enumerable properties
RECURSIVE AssignKv(_, _)
AssignKv(tkv, skv) ==
    IF skv = <<>> THEN tkv
    ELSE AssignKv(KvSet(tkv, Head(skv)[1], Head(skv)[2]), Tail(skv))

PropsOf(x) ==
    LET keys == ObjectKeys(x) IN [i \in 1..Len(keys) |-> <<keys[i], GetProp(x, keys[i])>>]

ObjectAssign(target, source) ==
    [target EXCEPT !.kv = AssignKv(target.kv, PropsOf(source))]

\* if (!rec.time) rec.time = new Date()
DefaultTime(kv) == IF Truthy(KvGet(kv, K.time)) THEN kv ELSE KvSet(kv, K.time, Now)

\* log.fields of the logger, then level, the caller's fields (a shallow copy,
\* serializers applied), msg, time and v
mkRecord(lg, minLevel, fields, msg) ==
    Obj(0, KvSet(DefaultTime(KvSet(
        AssignKv(<< <<K.name, lg.name>>, <<K.hostname, HostName>>, <<K.pid, Pid>> >>
                     \o lg.childFields \o << <<K.level, Num(minLevel)>> >>,
                 IF fields.t = "obj" THEN applySerializers(fields.kv) ELSE <<>>),
        K.msg, Str(msg))), K.v, Num(0)))

(***************************************************************************)
(* The _emit proxy (src/src/logging.ts:77-102)                             *)
(***************************************************************************)
CoreFields == {K.v, K.level, K.name, K.hostname, K.pid, K.time, K.src}

\* variant of RestOf that sets the message aside with the core fields
RestOfProtocol(logRecord) == Obj(0, KvRemove(logRecord.kv, CoreFields \cup {K.msg}))

\* const { v, level, name, hostname, pid, time, src, ...rest } = logRecord
RestOf(logRecord) == Obj(0, KvRemove(logRecord.kv, CoreFields))

\* variant of SerializedCopy without the copy: redact is handed the record's
\* own objects
SerializedCopyShared(cfg, rest) == rest

\* JSON.parse(globalReplace(JSON.stringify(rest, bigIntReplacer))):
\* the copy handed to redact, or Throw
SerializedCopy(cfg, rest) ==
    LET text == JSONStringify(rest) IN
    IF text.k # "txt" THEN Throw
    ELSE JSONParse(ApplyGlobalReplace(cfg.gr, text.txt))

\* redact(JSON.parse(globalReplace(JSON.stringify(rest, bigIntReplacer))))
RedactedRest(cfg, rest) == Redact(cfg, SerializedCopy(cfg, rest))

\* variant of Merge that emits the record as it is when the pipeline threw
MergeFailOpen(logRecord, redacted) ==
    IF IsThrow(redacted) THEN logRecord ELSE ObjectAssign(logRecord, redacted)

\* Object.assign(logRecord, redacted), or Throw when the pipeline threw
\* before reaching it
Merge(logRecord, redacted) ==
    IF IsThrow(redacted) THEN Throw ELSE ObjectAssign(logRecord, redacted)

\* the record handed to the original _emit, or Throw when the pipeline
\* throws before reaching it
Intercept(cfg, logRecord) ==
    Merge(logRecord, RedactedRest(cfg, RestOf(logRecord)))

(***************************************************************************)
(* Objects owned by the caller: redact writes in place, so whatever        *)
(* structure it is given is written back to the heap by identity           *)
(***************************************************************************)
RECURSIVE FindNode(_, _)
RECURSIVE FindInSeq(_, _)
FindNode(x, id) ==
    CASE x.t = "obj" ->
           (IF x.id = id THEN x
            ELSE FindInSeq([i \in 1..Len(x.kv) |-> x.kv[i][2]], id))
      [] x.t = "arr" -> FindInSeq(x.a, id)
      [] OTHER -> Undef

FindInSeq(xs, id) ==
    IF xs = <<>> THEN Undef
    ELSE LET r == FindNode(Head(xs), id) IN
         IF r.t # "undef" THEN r ELSE FindInSeq(Tail(xs), id)

RECURSIVE WriteThrough(_, _)
WriteThrough(x, written) ==
    CASE x.t = "obj" ->
           (IF x.id # 0 /\ FindNode(written, x.id).t # "undef"
            THEN FindNode(written, x.id)
            ELSE [x EXCEPT !.kv = [i \in 1..Len(x.kv) |->
                     <<x.kv[i][1], WriteThrough(x.kv[i][2], written)>>]])
      [] x.t = "arr" ->
           [x EXCEPT !.a = [i \in 1..Len(x.a) |-> WriteThrough(x.a[i], written)]]
      [] OTHER -> x

\* the heap after redact has written into `written`
HeapAfter(h, written) ==
    IF IsThrow(written) THEN h
    ELSE [i \in DOMAIN h |-> WriteThrough(h[i], written)]

(***************************************************************************)
(* Inputs                                                                  *)
(***************************************************************************)
\* number of log calls in one run
MaxCalls == 2

\* process.env as read by the logger
Envs ==
    {[LOG_LEVEL |-> ll, GAE_SERVICE |-> Undef, K_SERVICE |-> Undef] :
        ll \in {Undef, Str(<<>>), Str(N.debug)}}
    \cup {[LOG_LEVEL |-> Undef, GAE_SERVICE |-> Undef, K_SERVICE |-> Str(<<"f", "n">>)]}

\* redact paths
P ==
    [ awc |-> <<"a", ".", "*", ".", "c">>,
      pepper |-> <<"p", "e", "p", "p", "e", "r">>,
      wpepper |-> <<"*", ".", "p", "e", "p", "p", "e", "r">>,
      reqwpepper |-> <<"r", "e", "q", ".", "*", ".", "p", "e", "p", "p", "e", "r">>,
      reqauth |-> <<"r", "e", "q", ".", "h", "e", "a", "d", "e", "r", "s", ".", "a", "u", "t", "h", "o", "r", "i", "z", "a", "t", "i", "o", "n">>,
      reqcookie |-> <<"r", "e", "q", ".", "h", "e", "a", "d", "e", "r", "s", ".", "c", "o", "o", "k", "i", "e">>,
      star |-> <<"*">>,
      emptyseg |-> <<"a", ".", ".", "b">>,
      hyphen |-> <<"r", "e", "q", ".", "h", "e", "a", "d", "e", "r", "s", ".", "x", "-", "k", "e", "y">> ]

RC(paths, censor, gr) == [paths |-> paths, censor |-> censor, gr |-> gr]

\* no redact option
NoRedact == RC(<<>>, "default", "none")

\* the redact config of the middleware tests (src/src/logging.test.ts:217-231)
ServerPaths == <<P.pepper, P.wpepper, P.reqwpepper, P.reqauth, P.reqcookie>>

RedactConfigs ==
    { NoRedact,
      RC(<<P.awc>>, "default", "none"),
      RC(<<>>, "default", "phone"),
      RC(<<P.awc>>, "fixed", "none"),
      RC(ServerPaths, "constfn", "phone"),
      RC(<<P.awc, P.pepper, P.reqauth>>, "last4fn", "phone"),
      RC(<<P.star>>, "default", "none"),
      RC(<<P.star>>, "fixed", "names"),
      RC(<<>>, "default", "names"),
      RC(<<>>, "default", "digits"),
      RC(<<P.pepper, P.reqwpepper>>, "slicefn", "none"),
      RC(<<P.star, P.pepper>>, "last4fn", "none") }

\* the options of createLogger
LoggerOptions ==
    {[level |-> l, redact |-> NoRedact] :
        l \in {Undef, Str(N.warn), Str(N.error), Num(0)}}
    \cup {[level |-> Undef, redact |-> rc] : rc \in RedactConfigs}
    \cup {[level |-> Str(N.trace), redact |-> RC(ServerPaths, "constfn", "phone")]}
    \cup {[level |-> Undef, redact |-> RC(<<P.pepper, P.emptyseg>>, "default", "none")],
          [level |-> Undef, redact |-> RC(<<P.hyphen>>, "fixed", "phone")]}

S_phone == <<"+", "1", "2", "3", "4", "5", "6">>
S_callme == <<"t", "o", " ", "+", "1", "2", "3", "4", "5", "6">>
S_hi == <<"h", "i">>

\* objects owned by the caller: a nested payload and an incoming request
CallerPayload(c) ==
    Obj(1, << <<K.b, Obj(2, << <<K.c, Str(c)>>, <<K.d, Big(10)>> >>)>>,
              <<K.pepper, Str(<<"s", "a", "l", "t">>)>>,
              <<K.e, Null>> >>)

CallerRequest ==
    Obj(3, << <<K.method, Str(<<"P", "O", "S", "T">>)>>,
              <<K.url, Str(<<"/", "?", "p", "=", "%", "2", "B", "1", "2", "3", "4", "5", "6">>)>>,
              <<K.query, Obj(4, << <<<<"p">>, Str(S_phone)>> >>)>>,
              <<K.body, Obj(5, << <<K.phone, Str(S_phone)>>,
                                  <<K.pepper, Num(5)>> >>)>>,
              <<K.headers, Obj(6, << <<K.authorization, Str(<<"S", "E", "C", "R", "E", "T">>)>> >>)>>,
              <<K.connection, Obj(7, << <<K.remotePort, Num(80)>> >>)>> >>)

InitialHeap == <<CallerPayload(S_callme), CallerRequest>>

F_payload(h) == Obj(0, << <<K.a, h[1]>> >>)
F_request(h) == Obj(0, << <<K.req, h[2]>> >>)

\* a field whose name is a phone number
F_keyed == Obj(0, << <<S_phone, Obj(0, << <<K.pepper, Str(S_phone)>>,
                                          <<K.d, Big(10)>> >>)>> >>)

\* a failed axios call: the request body is a JSON text
F_err ==
    Obj(0, << <<K.err,
        Obj(0, << <<K.message, Str(<<"b", "o", "o", "m">>)>>,
                  <<K.name, Str(<<"E", "r", "r", "o", "r">>)>>,
                  <<K.stack, Str(<<"E", "r", "r", "o", "r", ":", " ", "b", "o", "o", "m">>)>>,
                  <<K.isAxiosError, Bool(TRUE)>>,
                  <<K.config, Obj(0, << <<K.method, Str(<<"p", "o", "s", "t">>)>>,
                                        <<K.url, Str(<<"/", "s", "m", "s">>)>>,
                                        <<K.data, Str(<<"{", QUOTE, "p", "e", "p", "p", "e", "r", QUOTE, ":",
                                                       QUOTE, "p", QUOTE, "}">>)>> >>)>>,
                  <<K.response, Obj(0, << <<K.status, Num(500)>>,
                                          <<K.data, Obj(0, << <<K.phone, Str(S_phone)>> >>)>> >>)>> >>)>> >>)

\* a field holding null
F_null == Obj(0, << <<K.pepper, Null>> >>)

\* values the serializers do not recognise: a request without method, a
\* response without statusCode, an error without stack
\* (src/src/logging.test.ts:510-531 logs err: {})
F_shapeless ==
    Obj(0, << <<K.req, Obj(0, << <<K.url, Str(<<"/">>)>> >>)>>,
              <<K.res, Obj(0, << <<K.statusCode, Num(0)>> >>)>>,
              <<K.err, Obj(0, <<>>)>> >>)

\* falsy values under the serializers' keys
F_falsy ==
    Obj(0, << <<K.req, Null>>, <<K.res, Bool(FALSE)>>, <<K.err, Str(<<>>)>> >>)

\* a field holding an object that refers to itself
F_cycle == Obj(0, << <<K.a, Obj(0, << <<K.b, Cycle>> >>)>> >>)

\* fields JSON has no form for: a Date and an array with a hole
F_dated ==
    Obj(0, << <<K.d, DateVal(7)>>, <<K.list, Arr(<<Undef, Num(1)>>)>> >>)

\* a secret that is a number
F_short == Obj(0, << <<K.pepper, Num(5)>> >>)

\* the fields argument of a log call
FieldsArgs(h) ==
    { Undef,
      F_dated,
      F_short,
      F_payload(h),
      F_request(h),
      F_keyed,
      F_null,
      F_cycle,
      F_shapeless,
      F_falsy,
      F_err,
      Obj(0, << <<K.pepper, Str(<<"s", "e", "c", "r", "e", "t">>)>>, <<K.f, Big(30)>>,
                <<K.ann, Num(3)>>, <<K.n, Null>>, <<K.u, Undef>> >>),
      Obj(0, << <<K.list, Arr(<<Big(1), Str(<<"%", "2", "b", "4", "4", "1", "2">>), Null>>)>>,
                <<K.a, Str(<<"x">>)>> >>) }

M_phone == <<"a", "t", " ", "+", "1", "2", "3", "4", "5", "6">>
M_quoted == <<"a", "n", "n", " ", QUOTE, "x", QUOTE>>

Messages == {S_hi, M_phone, M_quoted}

\* the log calls made on the logger: every level with a plain message, every
\* fields argument at info, and the messages with and without fields
LogCalls(h) ==
    {[lvl |-> l, fields |-> Undef, msg |-> S_hi] : l \in Levels}
    \cup {[lvl |-> INFO, fields |-> f, msg |-> S_hi] : f \in FieldsArgs(h)}
    \cup {[lvl |-> INFO, fields |-> f, msg |-> m] :
            f \in {Undef, F_payload(h)}, m \in Messages}

\* the log calls made on a request's child logger
ChildCalls(h) ==
    {[lvl |-> l, fields |-> F_payload(h), msg |-> M_phone] : l \in {DEBUG, ERROR}}
    \cup {[lvl |-> INFO, fields |-> F_request(h), msg |-> S_hi]}

vars == <<env, logger, heap, last, nCalls, calls, sink, mw, reqs>>

NoLogger == [made |-> FALSE, threw |-> FALSE]

\* createLogger threw: no logger is returned
FailedLogger(opt) == [made |-> FALSE, threw |-> TRUE, cfg |-> opt.redact]
NoCall == [kind |-> "none"]
NoMiddleware == [made |-> FALSE, who |-> 0]

Init ==
    /\ env \in Envs
    /\ logger = NoLogger
    /\ heap = InitialHeap
    /\ last = NoCall
    /\ nCalls = 0
    /\ calls = <<>>
    /\ sink = <<>>
    /\ mw = NoMiddleware
    /\ reqs = <<>>

\* fastRedact({ ...redactConfig, serialize: false }) (src/src/logging.ts:72):
\* the redactor keeps the paths and the censor it was built with
Compiled(redactConfig) ==
    [paths |-> redactConfig.paths, censor |-> redactConfig.censor]

\* the redaction an emission applies: paths and censor of the redactor built
\* at construction, globalReplace read from the caller's config when the
\* record is emitted (src/src/logging.ts:81-82)
Applied(lg) == RC(lg.redact.paths, lg.redact.censor, lg.cfg.gr)

\* createLogger (src/src/logging.ts:35-105); cfg is the caller's config
\* object, built what it held when createLogger was called
CreateLogger(opt) ==
    /\ ~logger.made
    /\ resolveLevel(logLevel(opt.level, env)) # -1
    /\ logger' = IF ~Validate(Dedup(opt.redact.paths, {})) THEN FailedLogger(opt)
                  ELSE [made |-> TRUE,
                        threw |-> FALSE,
                        patched |-> TRUE,
                        level |-> resolveLevel(logLevel(opt.level, env)),
                        streamLevel |-> resolveLevel(logLevel(opt.level, env)),
                        name |-> loggerName(env),
                        cfg |-> opt.redact,
                        redact |-> Compiled(opt.redact),
                        built |-> opt.redact,
                        optLevel |-> opt.level,
                        childFields |-> <<>>]
    /\ UNCHANGED <<env, heap, last, nCalls, calls, sink, mw, reqs>>

\* variant of EmitterPasses that drops the calls made exactly at the level
EmitterPassesStrict(lg, minLevel) == lg.level < minLevel

\* the guard of bunyan's log emitters (mkLogEmitter)
EmitterPasses(lg, minLevel) == lg.level <= minLevel

\* what redact wrote into during the call
RedactTarget(lg, rec) ==
    IF lg.patched THEN RedactedRest(Applied(lg), RestOf(rec)) ELSE Undef

\* the _emit a logger runs: the proxy is installed on the logger returned by
\* createLogger (src/src/logging.ts:77); a child built by bunyan's
\* constructor gets bunyan's own _emit from the prototype
EmitArgument(lg, rec, redacted) ==
    IF lg.patched THEN Merge(rec, redacted) ELSE rec

\* bunyan's _emit: the record is written to every stream whose level is at
\* most the record's level
StreamWrites(lg, rec) ==
    LET l == GetProp(rec, K.level) IN l.t = "num" /\ lg.streamLevel <= l.n

\* a call the emitter's guard drops
Dropped(kind, lvl) ==
    [kind |-> kind, lvl |-> lvl, emits |-> 0, threw |-> FALSE,
     rec |-> Undef, out |-> Undef, written |-> FALSE, replaced |-> <<>>,
     fields |-> Undef]

\* the texts globalReplace (or the identity that stands in for it,
\* src/src/logging.ts:81-82) is called with while lg._emit handles a record:
\* the proxy calls it once, on the text JSON.stringify returned
\* (src/src/logging.ts:96); bunyan's own _emit never calls it
ReplaceCalls(lg, text) ==
    IF lg.patched /\ text.k = "txt" THEN <<text.txt>> ELSE <<>>

\* a call that built rec: out reaches the original _emit unless the proxy threw
\* (fields: the first argument of the log call, as the caller gave it)
Emitted(kind, lg, call, rec, out) ==
    IF IsThrow(out)
    THEN [kind |-> kind, lvl |-> call.lvl, emits |-> 0, threw |-> TRUE,
          rec |-> rec, out |-> Undef, written |-> FALSE,
          replaced |-> ReplaceCalls(lg, JSONStringify(RestOf(rec))),
          fields |-> call.fields]
    ELSE [kind |-> kind, lvl |-> call.lvl, emits |-> 1, threw |-> FALSE,
          rec |-> rec, out |-> out, written |-> StreamWrites(lg, out),
          replaced |-> ReplaceCalls(lg, JSONStringify(RestOf(rec))),
          fields |-> call.fields]

\* variant of HandOff that puts the record before the ones handed over
\* earlier
HandOffFirst(handed, out) == <<GetProp(out, K.time)>> \o handed

\* Reflect.apply(target, thisArg, argumentsList): the record reaches the
\* original _emit when the call is made
HandOff(handed, out) == Append(handed, GetProp(out, K.time))

\* lg._emit(rec), redacted being what redact returned
EmitRedacted(kind, lg, call, rec, redacted) ==
    /\ last' = Emitted(kind, lg, call, rec, EmitArgument(lg, rec, redacted))
    /\ heap' = HeapAfter(heap, redacted)
    /\ sink' = IF last'.emits = 1 THEN HandOff(sink, last'.out) ELSE sink

\* lg._emit(rec)
Emit(kind, lg, call, rec) == EmitRedacted(kind, lg, call, rec, RedactTarget(lg, rec))

\* one call of lg.<level>(fields, msg)
LogOn(kind, lg, call) ==
    IF ~EmitterPasses(lg, call.lvl)
    THEN /\ last' = Dropped(kind, call.lvl)
         /\ heap' = heap
         /\ sink' = sink
         /\ calls' = Append(calls, [passed |-> FALSE, threw |-> FALSE])
    ELSE /\ Emit(kind, lg, call, mkRecord(lg, call.lvl, call.fields, call.msg))
         /\ calls' = Append(calls, [passed |-> TRUE, threw |-> last'.threw])

\* logger.trace/debug/info/warn/error/fatal(fields, msg)
Log(call) ==
    /\ logger.made
    /\ nCalls < MaxCalls
    /\ LogOn("root", logger, call)
    /\ nCalls' = nCalls + 1
    /\ UNCHANGED <<env, logger, mw, reqs>>

\* makeChildLogger (src/src/logging.ts:123-128): logger.child(fields, true)
makeChildLogger(lg, trace, span) ==
    [lg EXCEPT !.patched = FALSE,
               !.childFields = << <<K.trace, trace>>, <<K.spanId, span>> >>]

\* a log call on the child logger of a request (req.log)
LogChild(call) ==
    /\ logger.made
    /\ nCalls < MaxCalls
    /\ LogOn("child", makeChildLogger(logger, Str(<<"t", "1">>), Str(<<"s", "1">>)), call)
    /\ nCalls' = nCalls + 1
    /\ UNCHANGED <<env, logger, mw, reqs>>

\* the caller changes its own object between log calls
CallerMutate ==
    /\ heap' = [heap EXCEPT ![1] =
                   IF heap[1] = CallerPayload(S_callme) THEN CallerPayload(S_hi)
                   ELSE CallerPayload(S_callme)]
    /\ UNCHANGED <<env, logger, last, nCalls, calls, sink, mw, reqs>>

Next ==
    \/ \E opt \in LoggerOptions : CreateLogger(opt)
    \/ \E call \in LogCalls(heap) : Log(call)
    \/ \E call \in ChildCalls(heap) : LogChild(call)
    \/ CallerMutate

Spec == Init /\ [][Next]_vars

(***************************************************************************)
(* The caller keeps its redact config object and assigns to it after       *)
(* createLogger has returned                                               *)
(***************************************************************************)
\* the loggers built
CfgOptions ==
    {[level |-> Undef, redact |-> RC(<<P.pepper>>, "fixed", "phone")],
     [level |-> Undef, redact |-> NoRedact]}

\* the log calls made
CfgCalls(h) ==
    {[lvl |-> INFO, fields |-> F_payload(h), msg |-> M_phone],
     [lvl |-> INFO, fields |-> F_short, msg |-> M_quoted],
     [lvl |-> WARN, fields |-> Undef, msg |-> S_hi]}

\* what the caller's config holds after one assignment to paths, censor or
\* globalReplace
Reassignments(cfg) ==
    ({[cfg EXCEPT !.paths = p] : p \in {<<>>, <<P.pepper>>, <<P.star>>}}
     \cup {[cfg EXCEPT !.censor = c] : c \in {"default", "fixed", "last4fn"}}
     \cup {[cfg EXCEPT !.gr = g] : g \in {"none", "phone", "names"}})
    \ {cfg}

\* redactConfig.paths = ..., redactConfig.censor = ... or
\* redactConfig.globalReplace = ... on the object given to createLogger
ConfigReassign ==
    /\ logger.made
    /\ \E rc \in Reassignments(logger.cfg) : logger' = [logger EXCEPT !.cfg = rc]
    /\ UNCHANGED <<env, heap, last, nCalls, calls, sink, mw, reqs>>

NextCfg ==
    \/ \E opt \in CfgOptions : CreateLogger(opt)
    \/ ConfigReassign
    \/ \E call \in CfgCalls(heap) : Log(call)

SpecCfg == Init /\ [][NextCfg]_vars

(***************************************************************************)
(* Errors of HTTP clients logged under the err key                         *)
(* (src/src/logging.test.ts:533-825)                                       *)
(***************************************************************************)
S_boom == <<"b", "o", "o", "m">>
S_trace == <<"E", "r", "r", "o", "r", ":", " ", "b", "o", "o", "m">>
S_sms == <<"/", "s", "m", "s">>
S_other == <<"/", "o", "t", "h", "e", "r">>
S_POST == <<"P", "O", "S", "T">>
S_post == <<"p", "o", "s", "t">>
S_pepperJson == <<"{", QUOTE, "p", "e", "p", "p", "e", "r", QUOTE, ":", QUOTE, "p", QUOTE, "}">>
S_form == <<"p", "=", "1">>
\* a JSON text with a fraction, an exponent and an integer key of ten digits
S_numbersJson ==
    <<"{", QUOTE, "a", QUOTE, ":", "1", ".", "5", ",", QUOTE, "1", "2", "3", "4", "5", "6", "7", "8", "9", "0", QUOTE, ":", "1", "e", "3", "}">>
\* a JSON text with number literals that are not Numbers themselves: an
\* integer above 2^53, a fraction of 17 digits, -0, a literal below the
\* smallest Number and one above the largest
\* {"a":9007199254740993,"b":0.30000000000000004,"c":-0,"d":1e-324,"e":1.797693135e308}
S_roundedJson ==
    <<"{", QUOTE, "a", QUOTE, ":", "9", "0", "0", "7", "1", "9", "9", "2", "5", "4", "7",
      "4", "0", "9", "9", "3", ",", QUOTE, "b", QUOTE, ":", "0", ".", "3", "0", "0", "0",
      "0", "0", "0", "0", "0", "0", "0", "0", "0", "0", "0", "0", "4", ",", QUOTE, "c",
      QUOTE, ":", "-", "0", ",", QUOTE, "d", QUOTE, ":", "1", "e", "-", "3", "2", "4", ",",
      QUOTE, "e", QUOTE, ":", "1", ".", "7", "9", "7", "6", "9", "3", "1", "3", "5", "e",
      "3", "0", "8", "}">>
\* JSON.stringify({ b: 1, 0: '+123456' }, null, '\t') with the plus sign
\* written as \u002b
S_prettyJson ==
    <<"{", LF, TAB, QUOTE, "b", QUOTE, ":", " ", "1", ",", LF,
      TAB, QUOTE, "0", QUOTE, ":", " ", QUOTE, BACKSLASH, "u", "0", "0", "2", "b",
      "1", "2", "3", "4", "5", "6", QUOTE, LF, "}">>

\* what every Error carries
ErrorBase ==
    << <<K.message, Str(S_boom)>>, <<K.name, Str(<<"E", "r", "r", "o", "r">>)>>, <<K.stack, Str(S_trace)>> >>

GotOptions ==
    Obj(0, << <<K.method, Str(S_POST)>>, <<K.url, Str(S_sms)>>,
              <<K.json, Obj(0, << <<K.pepper, Str(<<"p">>)>>,
                                  <<K.phone, Str(S_phone)>> >>)>> >>)

AxiosConfig(data) ==
    Obj(0, << <<K.method, Str(S_post)>>, <<K.url, Str(S_other)>>, <<K.data, data>> >>)

\* the errors logged: a plain Error with a code; a got error with a response;
\* a got error of a request that failed to connect; an error with both the
\* got and the axios shape; axios errors whose request body is a JSON text,
\* a text that is not JSON, a JSON text written over several lines, a JSON
\* text with numbers that are not integer literals, a JSON text with number
\* literals JSON.parse rounds, and an object; an axios error that carries
\* options without a url; an error marked isAxiosError without a config
ErrValues ==
    { Obj(0, ErrorBase \o << <<K.code, Str(<<"E">>)>> >>),
      Obj(0, ErrorBase \o
             << <<K.options, GotOptions>>,
                <<K.response, Obj(0, << <<K.statusCode, Num(500)>>,
                                        <<K.body, Obj(0, << <<K.phone, Str(S_phone)>> >>)>> >>)>> >>),
      Obj(0, ErrorBase \o
             << <<K.options, Obj(0, << <<K.method, Str(S_POST)>>, <<K.url, Str(S_sms)>>,
                                       <<K.body, Str(S_form)>> >>)>> >>),
      Obj(0, ErrorBase \o
             << <<K.options, GotOptions>>,
                <<K.isAxiosError, Bool(TRUE)>>,
                <<K.config, AxiosConfig(Str(S_pepperJson))>>,
                <<K.response, Obj(0, << <<K.statusCode, Num(404)>>,
                                        <<K.status, Num(404)>>,
                                        <<K.data, Str(S_phone)>> >>)>> >>),
      Obj(0, ErrorBase \o
             << <<K.isAxiosError, Bool(TRUE)>>,
                <<K.config, AxiosConfig(Str(S_pepperJson))>>,
                <<K.response, Obj(0, << <<K.status, Num(500)>>,
                                        <<K.data, Obj(0, << <<K.phone, Str(S_phone)>> >>)>> >>)>> >>),
      Obj(0, ErrorBase \o
             << <<K.isAxiosError, Bool(TRUE)>>, <<K.config, AxiosConfig(Str(S_form))>> >>),
      Obj(0, ErrorBase \o
             << <<K.isAxiosError, Bool(TRUE)>>, <<K.config, AxiosConfig(Str(S_prettyJson))>> >>),
      Obj(0, ErrorBase \o
             << <<K.isAxiosError, Bool(TRUE)>>, <<K.config, AxiosConfig(Str(S_numbersJson))>> >>),
      Obj(0, ErrorBase \o
             << <<K.isAxiosError, Bool(TRUE)>>, <<K.config, AxiosConfig(Str(S_roundedJson))>> >>),
      Obj(0, ErrorBase \o
             << <<K.isAxiosError, Bool(TRUE)>>,
                <<K.config, AxiosConfig(Obj(0, << <<K.pepper, Num(5)>> >>))>> >>),
      Obj(0, ErrorBase \o
             << <<K.options, Obj(0, << <<K.method, Str(S_POST)>> >>)>>,
                <<K.isAxiosError, Bool(TRUE)>>,
                <<K.config, AxiosConfig(Null)>> >>),
      Obj(0, ErrorBase \o << <<K.isAxiosError, Bool(TRUE)>> >>) }

\* logger.error({ err }, 'boom') and logger.info({ err })
ErrCalls ==
    {[lvl |-> ERROR, fields |-> Obj(0, << <<K.err, e>> >>), msg |-> S_boom] : e \in ErrValues}
    \cup {[lvl |-> INFO, fields |-> F_err, msg |-> S_hi]}

P_errBodyPepper == <<"e", "r", "r", ".", "r", "e", "q", "u", "e", "s", "t", ".", "b", "o", "d", "y", ".", "p", "e", "p", "p", "e", "r">>

\* the loggers built
ErrOptions ==
    {[level |-> Undef, redact |-> NoRedact],
     [level |-> Undef, redact |-> RC(<<P_errBodyPepper>>, "fixed", "phone")]}

NextErr ==
    \/ \E opt \in ErrOptions : CreateLogger(opt)
    \/ \E call \in ErrCalls : Log(call)

SpecErr == Init /\ [][NextErr]_vars

(***************************************************************************)
(* createLoggingMiddleware (src/src/logging.ts:109-177)                    *)
(***************************************************************************)
\* number of HTTP requests in one run
MaxRequests == 2

Requests == 1..MaxRequests

\* variant of ReqAt in which every call of the middleware function sees the
\* req of the first request
ReqAtShared(r) == 1

\* the place of a request's req and res objects in the heap: the req and res
\* the middleware function is called with and emitRequestLog closes over
\* (src/src/logging.ts:130-131)
ReqAt(r) == 2 * r - 1
ResAt(r) == 2 * r

\* the req object express hands to the middleware for request r
IncomingRequest(r) ==
    Obj(10 * r, << <<K.method, Str(CASE r = 1 -> <<"P", "O", "S", "T">>
                                          [] r = 2 -> <<"G", "E", "T">>
                                          [] OTHER -> <<"P", "U", "T">>)>>,
                   <<K.url, Str(<<"/", "?", "p", "=", "%", "2", "B", "1", "2", "3", "4", "5">>
                                \o NatToText(r))>>,
                   <<K.headers,
                     Obj(10 * r + 1, << <<K.authorization,
                                          Str(<<"S", "E", "C", "R", "E", "T">> \o NatToText(r))>> >>)>> >>)

\* the res object of request r: a ServerResponse starts with statusCode 200
IncomingResponse(r) == Obj(10 * r + 2, << <<K.statusCode, Num(200)>> >>)

MwHeap ==
    [i \in 1..(2 * MaxRequests) |->
        IF i % 2 = 1 THEN IncomingRequest((i + 1) \div 2) ELSE IncomingResponse(i \div 2)]

\* the status the handler of request r answers with
AnswerStatus(r) == IF r = 1 THEN 200 ELSE 402 + r

\* the trace context of request r, as the middleware of @google-cloud/logging
\* reads or generates it
TraceOf(r) == Str(<<"p", "/", "t">> \o NatToText(r))
SpanOf(r) == Str(<<"s">> \o NatToText(r))
TraceHeaderOf(r) == Str(<<"t">> \o NatToText(r) \o <<"/", "s">> \o NatToText(r))

\* String.prototype.startsWith
StartsWith(s, prefix) ==
    Len(prefix) <= Len(s) /\ SubSeq(s, 1, Len(prefix)) = prefix

\* makeHttpRequestData(req, res) of @google-cloud/logging: only the members
\* that have a value are included
makeHttpRequestData(req, res) ==
    Obj(0, SelectSeq(<< <<K.requestUrl, GetProp(req, K.url)>>,
                        <<K.requestMethod, GetProp(req, K.method)>>,
                        <<K.responseSize, GetProp(res, K.size)>>,
                        <<K.status, GetProp(res, K.statusCode)>> >>,
                     LAMBDA kv : Truthy(kv[2])))

\* variant of FormatRequestUrl without the test for a requestUrl that already
\* starts with the function's name
FormatRequestUrlAlways(cloudFunctionName, requestUrl) ==
    IF /\ Truthy(cloudFunctionName)
       /\ requestUrl.t = "str"
       /\ StartsWith(requestUrl.s, <<"/">>)
    THEN Str(<<"/">> \o cloudFunctionName.s \o requestUrl.s)
    ELSE requestUrl

\* src/src/logging.ts:152-157
FormatRequestUrl(cloudFunctionName, requestUrl) ==
    IF /\ Truthy(cloudFunctionName)
       /\ requestUrl.t = "str"
       /\ StartsWith(requestUrl.s, <<"/">>)
       /\ ~StartsWith(requestUrl.s, <<"/">> \o cloudFunctionName.s)
    THEN Str(<<"/">> \o cloudFunctionName.s \o requestUrl.s)
    ELSE requestUrl

\* src/src/logging.ts:149-158: { ...httpRequest, requestUrl: ... }
FormattedHttpRequest(e, httpRequest) ==
    SetProp(httpRequest, K.requestUrl,
            FormatRequestUrl(e.K_SERVICE, GetProp(httpRequest, K.requestUrl)))

\* src/src/logging.ts:140-166: the fields of the 'Request finished' log call
RequestLogFields(e, exclude, req, res, httpRequest, trace, span, sampled) ==
    Obj(0, << <<K.req, req>>, <<K.res, res>> >>
           \o (IF Truthy(getGoogleServiceName(e)) /\ ~exclude
               THEN << <<K.httpRequest, FormattedHttpRequest(e, httpRequest)>>,
                       <<K.trace, trace>>,
                       <<K.spanId, span>>,
                       <<K.sampled, sampled>> >>
               ELSE <<>>))

S_finished == <<"R", "e", "q", "u", "e", "s", "t", " ", "f", "i", "n", "i", "s", "h", "e", "d">>

\* a request before express hands it to the middleware
\* (emitted: the messages of the records the request's log calls handed to the
\* original _emit, in order)
NewRequest ==
    [stage |-> "new", nexts |-> 0, hooked |-> FALSE, logs |-> 0, emitted |-> <<>>,
     hookThrew |-> FALSE]

\* the messages handed over for a request, after its log call c
EmittedAfter(emitted, c) ==
    IF c.emits = 1 THEN Append(emitted, GetProp(c.out, K.msg).s) ELSE emitted

\* process.env of the servers
MwEnvs ==
    {[LOG_LEVEL |-> Undef, GAE_SERVICE |-> Undef, K_SERVICE |-> Undef],
     [LOG_LEVEL |-> Undef, GAE_SERVICE |-> Undef, K_SERVICE |-> Str(<<"f", "n">>)],
     [LOG_LEVEL |-> Undef, GAE_SERVICE |-> Str(<<"s", "v", "c">>), K_SERVICE |-> Undef]}

\* the loggers of the servers: the one of the middleware tests
\* (src/src/logging.test.ts:217-231), one without redaction, one at warn and
\* one whose globalReplace breaks the text of a record that holds a number
MwLoggerOptions ==
    {[level |-> Undef, redact |-> RC(ServerPaths, "constfn", "phone")],
     [level |-> Undef, redact |-> NoRedact],
     [level |-> Str(N.warn), redact |-> NoRedact],
     [level |-> Undef, redact |-> RC(<<>>, "default", "digits")]}

InitMw ==
    /\ env \in MwEnvs
    /\ logger = NoLogger
    /\ heap = MwHeap
    /\ last = NoCall
    /\ nCalls = 0
    /\ calls = <<>>
    /\ sink = <<>>
    /\ mw = NoMiddleware
    /\ reqs = [r \in Requests |-> NewRequest]

\* createLoggingMiddleware({ projectId, logger, excludeHttpRequestField })
CreateMiddleware(exclude) ==
    /\ logger.made
    /\ ~mw.made
    /\ mw' = [made |-> TRUE, who |-> 0, exclude |-> exclude]
    /\ UNCHANGED <<env, logger, heap, last, nCalls, calls, sink, reqs>>

\* variant of CallNext that leaves next() to the completion hook
CallNextLater(n) == n

\* next()
CallNext(n) == n + 1

\* the middleware function is called with (req, res, next)
\* (src/src/logging.ts:130, 170-174): the makeMiddleware of
\* @google-cloud/logging puts the trace context into the request's headers,
\* installs the child logger as req.log, registers the completion hook on
\* res and calls next()
Middleware(r) ==
    /\ mw.made
    /\ reqs[r].stage = "new"
    /\ heap' = [heap EXCEPT ![ReqAt(r)] =
                   SetPath(heap[ReqAt(r)], <<K.headers, K.traceHeader>>, TraceHeaderOf(r))]
    /\ reqs' = [reqs EXCEPT ![r] = [@ EXCEPT !.stage = "handling",
                                             !.hooked = TRUE,
                                             !.nexts = CallNext(@)]]
    /\ UNCHANGED <<env, logger, last, nCalls, calls, sink, mw>>

\* the handler of request r logs the request, on the logger
\* (src/src/logging.test.ts:240-245) or on req.log
HandlerLog(r, onChild) ==
    /\ reqs[r].stage = "handling"
    /\ reqs[r].logs = 0
    /\ LogOn(IF onChild THEN "child" ELSE "root",
             IF onChild THEN makeChildLogger(logger, TraceOf(r), SpanOf(r)) ELSE logger,
             [lvl |-> INFO, fields |-> Obj(0, << <<K.req, heap[ReqAt(r)]>> >>), msg |-> S_hi])
    /\ nCalls' = nCalls + 1
    /\ reqs' = [reqs EXCEPT ![r] = [@ EXCEPT !.logs = 1,
                                             !.emitted = EmittedAfter(@, last')]]
    /\ mw' = [mw EXCEPT !.who = r]
    /\ UNCHANGED <<env, logger>>

\* the handler of request r sends the response
Respond(r) ==
    /\ reqs[r].stage = "handling"
    /\ heap' = [heap EXCEPT ![ResAt(r)] =
                   Obj(heap[ResAt(r)].id,
                       << <<K.statusCode, Num(AnswerStatus(r))>>,
                          <<K.rawHeader, Str(<<"H">> \o NatToText(AnswerStatus(r)))>>,
                          <<K.size, Num(16)>> >>)]
    /\ reqs' = [reqs EXCEPT ![r].stage = "finished"]
    /\ UNCHANGED <<env, logger, last, nCalls, calls, sink, mw>>

\* variant of HookReady that lets the hook run as soon as it is registered
HookReadyEarly(q) == q.hooked /\ q.stage \in {"handling", "finished"}

\* onFinished(res, ...): the hook runs once, after the response has finished
HookReady(q) == q.hooked /\ q.stage = "finished"

\* the completion hook of request r: emitRequestLog
\* (src/src/logging.ts:131-169), a logger.info on the logger
Hook(r) ==
    /\ HookReady(reqs[r])
    /\ LogOn("root", logger,
             [lvl |-> INFO,
              fields |-> RequestLogFields(env, mw.exclude, heap[ReqAt(r)], heap[ResAt(r)],
                             makeHttpRequestData(heap[ReqAt(r)], heap[ResAt(r)]),
                             TraceOf(r), SpanOf(r), Bool(FALSE)),
              msg |-> S_finished])
    /\ nCalls' = nCalls + 1
    /\ reqs' = [reqs EXCEPT ![r] = [@ EXCEPT !.stage = "logged",
                                             !.hooked = FALSE,
                                             !.emitted = EmittedAfter(@, last'),
                                             !.hookThrew = last'.threw]]
    /\ mw' = [mw EXCEPT !.who = r]
    /\ UNCHANGED <<env, logger>>

NextMw ==
    \/ \E opt \in MwLoggerOptions : CreateLogger(opt)
    \/ \E exclude \in BOOLEAN : CreateMiddleware(exclude)
    \/ \E r \in Requests : Middleware(r)
    \/ \E r \in Requests, onChild \in BOOLEAN : HandlerLog(r, onChild)
    \/ \E r \in Requests : Respond(r)
    \/ \E r \in Requests : Hook(r)

SpecMw == InitMw /\ [][NextMw]_vars
(***************************************************************************)
(* The httpRequest summary of emitRequestLog on its own                    *)
(* (src/src/logging.ts:137-161), for the request URLs and environments a   *)
(* server can meet                                                         *)
(***************************************************************************)
UrlEnvs ==
    MwEnvs \cup {[LOG_LEVEL |-> Undef, GAE_SERVICE |-> Str(<<"s", "v", "c">>),
                  K_SERVICE |-> Str(<<"f", "n">>)]}

\* req.url: absent, empty, with and without a leading slash, starting with
\* the function's name or with a longer name
RequestUrls ==
    {Undef, Str(<<>>), Str(<<"/">>), Str(<<"/", "?", "p", "=", "1">>), Str(<<"x">>),
     Str(<<"f", "n", "/", "a">>), Str(<<"/", "f", "n">>), Str(<<"/", "f", "n", "/", "a">>),
     Str(<<"/", "f", "n", "x">>), Str(<<"/", "f">>)}

\* the requests and responses the library describes to emitRequestLog
UrlRequests ==
    {Obj(0, << <<K.url, u>>, <<K.method, Str(m)>> >>) :
        u \in RequestUrls, m \in {<<"P", "O", "S", "T">>, <<"G", "E", "T">>}}

UrlResponses ==
    {Obj(0, << <<K.statusCode, Num(s)>>, <<K.size, Num(16)>> >>) : s \in {200, 404}}

\* the loggers of the servers: without redaction, and the one of the
\* middleware tests
UrlLoggerOptions ==
    {[level |-> Undef, redact |-> NoRedact],
     [level |-> Undef, redact |-> RC(ServerPaths, "constfn", "phone")]}

InitUrl ==
    /\ env \in UrlEnvs
    /\ logger = NoLogger
    /\ heap = <<>>
    /\ last = NoCall
    /\ nCalls = 0
    /\ calls = <<>>
    /\ sink = <<>>
    /\ mw = NoMiddleware
    /\ reqs = <<>>

\* emitRequestLog(httpRequest, trace, span, sampled), called by the library
\* for the request req and the response res with the httpRequest it made of
\* them (src/src/logging.ts:131-169): one logger.info of the fields of the
\* 'Request finished' record; mw keeps the httpRequest that was given
EmitRequestLogFor(req, res, again) ==
    /\ mw' = [made |-> TRUE, who |-> 0, exclude |-> mw.exclude,
              given |-> makeHttpRequestData(req, res), again |-> again]
    /\ LogOn("root", logger,
             [lvl |-> INFO,
              fields |-> RequestLogFields(env, mw.exclude, req, res, mw'.given,
                                          TraceOf(1), SpanOf(1), Bool(FALSE)),
              msg |-> S_finished])
    /\ nCalls' = nCalls + 1
    /\ UNCHANGED <<env, logger, reqs>>

\* the completion of a request
EmitRequestLog(req, res) ==
    /\ mw.made
    /\ nCalls = 0
    /\ EmitRequestLogFor(req, res, FALSE)

\* the completion of a request for the URL the last summary shows: the rule
\* applied to the requestUrl it produced
EmitRequestLogAgain ==
    /\ mw.made
    /\ nCalls = 1
    /\ last.emits = 1
    /\ HasProp(last.out, K.httpRequest)
    /\ EmitRequestLogFor(SetProp(GetProp(last.fields, K.req), K.url,
                                 GetPath(last.out, <<K.httpRequest, K.requestUrl>>)),
                         GetProp(last.fields, K.res), TRUE)

NextUrl ==
    \/ \E opt \in UrlLoggerOptions : CreateLogger(opt)
    \/ \E exclude \in BOOLEAN : CreateMiddleware(exclude)
    \/ \E req \in UrlRequests, res \in UrlResponses : EmitRequestLog(req, res)
    \/ EmitRequestLogAgain

SpecUrl == InitUrl /\ [][NextUrl]_vars

(***************************************************************************)
(* Notions the properties are stated with                                  *)
(***************************************************************************)
\* the paths (sequences of keys and indexes) of all the values inside v
RECURSIVE NodePaths(_)
NodePaths(v) ==
    CASE v.t = "obj" ->
           UNION {{<<v.kv[i][1]>>}
                    \cup {<<v.kv[i][1]>> \o p : p \in NodePaths(v.kv[i][2])} :
                  i \in 1..Len(v.kv)}
      [] v.t = "arr" ->
           UNION {{<<NatToText(i - 1)>>}
                    \cup {<<NatToText(i - 1)>> \o p : p \in NodePaths(v.a[i])} :
                  i \in 1..Len(v.a)}
      [] OTHER -> {}

\* the paths of the strings, numbers, booleans and nulls inside v
ScalarPaths(v) ==
    {p \in NodePaths(v) : GetPath(v, p).t \in {"str", "num", "dec", "negzero", "bool", "null"}}

\* a dot-separated pattern reaches a path: same length, every segment equal
\* to the key or a wildcard
PatternMatches(segs, p) ==
    /\ Len(segs) = Len(p)
    /\ \A i \in 1..Len(segs) : segs[i] = STAR \/ segs[i] = p[i]

\* some configured pattern reaches the path
Matches(cfg, p) ==
    \E i \in 1..Len(cfg.paths) : PatternMatches(PathSegments(cfg.paths[i]), p)

\* some configured pattern reaches a value the path goes through
CoveredAbove(cfg, p) ==
    \E j \in 1..(Len(p) - 1) : Matches(cfg, SubSeq(p, 1, j))

Covered(cfg, p) == Matches(cfg, p) \/ CoveredAbove(cfg, p)

\* the protocol fields of a record
ProtocolFields == {K.v, K.level, K.name, K.hostname, K.pid, K.time}

\* the last log call was made on the logger returned by createLogger and its
\* record was handed to the original _emit
RootEmitted == last.kind = "root" /\ last.emits = 1

\* one of the steps of the pipeline throws on the non-protocol fields:
\* JSON.stringify, JSON.parse of the rewritten text, or redact
PipelineThrows(cfg, rest) ==
    LET text == JSONStringify(rest) IN
    \/ text.k = "throw"
    \/ /\ text.k = "txt"
       /\ LET copy == JSONParse(ApplyGlobalReplace(cfg.gr, text.txt)) IN
          IsThrow(copy) \/ IsThrow(Redact(cfg, copy))

\* the fields of a log call as the record holds them
SerializedFields(fields) == Obj(0, applySerializers(fields.kv))

\* the numbers of the log calls that passed the level guard and returned
HandedCalls == {i \in 1..Len(calls) : calls[i].passed /\ ~calls[i].threw}

\* the pattern reaches some value of the structure
ReachesSome(path, v) ==
    \E p \in NodePaths(v) : PatternMatches(PathSegments(path), p)

\* a path that is not a sequence of names and wildcards separated by dots
Malformed(path) ==
    \/ path = <<>>
    \/ Head(path) = "." \/ path[Len(path)] = "."
    \/ \E i \in 1..(Len(path) - 1) : path[i] = "." /\ path[i + 1] = "."
    \/ \E i \in 1..Len(path) : path[i] \in {"-", " "}

\* the elements of a sequence
Range(s) == {s[i] : i \in DOMAIN s}

\* the last record handed to the original _emit is the 'Request finished'
\* record of request r
IsRequestLog(r) ==
    /\ mw.who = r
    /\ last.kind = "root"
    /\ last.emits = 1
    /\ GetProp(last.out, K.msg) = Str(S_finished)

\* the life of request r as C12 states it
LifecycleOf(r) ==
    /\ reqs[r].stage # "logged" => S_finished \notin Range(reqs[r].emitted)
    /\ S_finished \in Range(reqs[r].emitted) => HasProp(heap[ResAt(r)], K.rawHeader)
    /\ reqs[r].stage = "logged" =>
           /\ Cardinality({i \in DOMAIN reqs[r].emitted : reqs[r].emitted[i] = S_finished}) = 1
           /\ reqs[r].logs = 1 => reqs[r].emitted = <<S_hi, S_finished>>
    /\ IsRequestLog(r) =>
           /\ GetProp(last.out, K.level) = Num(INFO)
           /\ HasProp(last.out, K.req)
           /\ HasProp(last.out, K.res)

\* a BigInt somewhere inside v
RECURSIVE HasBigInt(_)
HasBigInt(v) ==
    CASE v.t = "big" -> TRUE
      [] v.t = "obj" -> \E i \in 1..Len(v.kv) : HasBigInt(v.kv[i][2])
      [] v.t = "arr" -> \E i \in 1..Len(v.a) : HasBigInt(v.a[i])
      [] OTHER -> FALSE

\* the value holds a Date
RECURSIVE HasDate(_)
HasDate(v) ==
    CASE v.t = "date" -> TRUE
      [] v.t = "obj" -> \E i \in 1..Len(v.kv) : HasDate(v.kv[i][2])
      [] v.t = "arr" -> \E i \in 1..Len(v.a) : HasDate(v.a[i])
      [] OTHER -> FALSE

\* a value JSON has a form for: strings, numbers, booleans, null, arrays of
\* such values and objects whose properties hold such values or undefined
RECURSIVE IsJSONValue(_)
IsJSONValue(v) ==
    CASE v.t \in {"str", "num", "dec", "negzero", "bool", "null"} -> TRUE
      [] v.t = "obj" ->
           \A i \in 1..Len(v.kv) : v.kv[i][2].t = "undef" \/ IsJSONValue(v.kv[i][2])
      [] v.t = "arr" -> \A i \in 1..Len(v.a) : IsJSONValue(v.a[i])
      [] OTHER -> FALSE

\* the structure of a value: what it holds, whichever object holds it;
\* a property holding undefined counts as absent
RECURSIVE StructureOf(_)
StructureOf(v) ==
    CASE v.t = "obj" ->
           LET kept == SelectSeq(v.kv, LAMBDA m : m[2].t # "undef") IN
           Obj(0, [i \in 1..Len(kept) |-> <<kept[i][1], StructureOf(kept[i][2])>>])
      [] v.t = "arr" -> Arr([i \in 1..Len(v.a) |-> StructureOf(v.a[i])])
      [] OTHER -> v

\* the last log call on the logger built a record (it passed the level guard)
RootBuilt == last.kind = "root" /\ last.rec # Undef

\* the serialized text of the value parses back to the value's structure
RoundTrips(v) ==
    LET text == JSONStringify(v) IN
    /\ text.k = "txt"
    /\ StructureOf(JSONParse(text.txt)) = StructureOf(v)

\* the orders the paths of a config can be given in
Orderings(paths) ==
    {q \in [1..Len(paths) -> Range(paths)] : Range(q) = Range(paths)}

\* the config with the given paths
WithPaths(cfg, paths) == [cfg EXCEPT !.paths = paths]

\* the paths of the config that reach p
MatchingPaths(cfg, p) ==
    {i \in 1..Len(cfg.paths) : PatternMatches(PathSegments(cfg.paths[i]), p)}

\* redact gives the same result for every order of the paths
OrderIndependent(cfg, copy) ==
    \A q \in Orderings(cfg.paths) : Redact(WithPaths(cfg, q), copy) = Redact(cfg, copy)

\* every value reached by patterns is what any one of them alone leaves there
AsIfMatchedOnce(cfg, copy) ==
    LET all == Redact(cfg, copy) IN
    ~IsThrow(all) =>
        \A p \in NodePaths(copy) :
            ~CoveredAbove(cfg, p) =>
                \A i \in MatchingPaths(cfg, p) :
                    GetPath(all, p) = GetPath(Redact(WithPaths(cfg, <<cfg.paths[i]>>), copy), p)

\* the text begins with the given characters
BeginsWith(s, chars) ==
    Len(s) >= Len(chars) /\ \A i \in 1..Len(chars) : s[i] = chars[i]

\* an environment variable is set (to something other than the empty text)
IsSet(x) == x.t = "str" /\ x.s # <<>>

\* the last log call is the one of emitRequestLog, and its record was
\* handed to the original _emit
SummaryCall ==
    /\ mw.made
    /\ last.kind = "root"
    /\ last.emits = 1
    /\ GetProp(last.out, K.msg) = Str(S_finished)

\* C27's condition for the rewrite: K_SERVICE is set, requestUrl starts with
\* a slash and does not start with a slash and the value of K_SERVICE
MustPrefix(e, requestUrl) ==
    /\ IsSet(e.K_SERVICE)
    /\ requestUrl.t = "str"
    /\ BeginsWith(requestUrl.s, <<"/">>)
    /\ ~BeginsWith(requestUrl.s, <<"/">> \o e.K_SERVICE.s)

\* the value logged under err by the last call, and its view in the record
LoggedErr == GetProp(last.fields, K.err)
ErrView == GetProp(last.rec, K.err)

\* the last call went to the logger itself with an error that has a stack
ErrLogged ==
    /\ RootBuilt
    /\ last.fields.t = "obj"
    /\ HasProp(last.fields, K.err)
    /\ LoggedErr.t = "obj"
    /\ Truthy(GetProp(LoggedErr, K.stack))

\* the error has options.url
HasGotShape(e) ==
    /\ Truthy(GetProp(e, K.options))
    /\ Truthy(GetProp(GetProp(e, K.options), K.url))

\* the error has isAxiosError and config
HasAxiosShape(e) ==
    Truthy(GetProp(e, K.isAxiosError)) /\ Truthy(GetProp(e, K.config))

\* the members of an object view
Members(view) == {view.kv[i][1] : i \in 1..Len(view.kv)}

\* the members of the base error view
BaseMembers == {K.message, K.name, K.stack, K.code, K.signal}

\* The request body of an axios error whose config.data is data: for each
\* JSON text among the errors logged the value it denotes, written out; any
\* other data (a text that is not JSON, an object, null, nothing) itself.
\* Of the numbers of S_roundedJson, JSON.parse gives 9007199254740992,
\* 0.30000000000000004, -0, 0 and Infinity.
BodyOf(data) ==
    CASE data = Str(S_pepperJson) -> Obj(0, << <<K.pepper, Str(<<"p">>)>> >>)
      [] data = Str(S_prettyJson) ->
           Obj(0, << <<<<"0">>, Str(S_phone)>>, <<K.b, Num(1)>> >>)
      [] data = Str(S_numbersJson) ->
           Obj(0, << <<<<"1", "2", "3", "4", "5", "6", "7", "8", "9", "0">>, Num(1000)>>,
                     <<K.a, Dec(FALSE, <<"1", "5">>, -1)>> >>)
      [] data = Str(S_roundedJson) ->
           Obj(0, << <<K.a, Dec(FALSE, <<"9", "0", "0", "7", "1", "9", "9", "2", "5", "4", "7",
                                          "4", "0", "9", "9", "2">>, 0)>>,
                     <<K.b, Dec(FALSE, <<"3", "0", "0", "0", "0", "0", "0", "0", "0", "0", "0",
                                          "0", "0", "0", "0", "0", "4">>, -17)>>,
                     <<K.c, NegZero>>,
                     <<K.d, Num(0)>>,
                     <<K.e, Inf(FALSE)>> >>)
      [] OTHER -> data

\* the data is one of the JSON texts among the errors logged
IsJSONText(data) ==
    data \in {Str(S_pepperJson), Str(S_prettyJson), Str(S_numbersJson), Str(S_roundedJson)}

(***************************************************************************)
(* Properties                                                              *)
(***************************************************************************)
\* C1: a log call leaves every object owned by the caller as it was before
\* the call, whatever the redaction config: redaction writes to the copy and
\* to the top-level keys of the record built for the call only.
NonMutation == [][nCalls' # nCalls => heap' = heap]_vars

\* C1 is exercised: the logged request object is held by the record, the
\* emitted view of its authorization header is censored, and the caller's
\* request still carries the header.
NonMutationWitness ==
    /\ RootEmitted
    /\ FindNode(last.rec, 6).t = "obj"
    /\ GetPath(last.out, <<K.req, K.headers, K.authorization>>) = CustomCensor
    /\ GetPath(heap[2], <<K.headers, K.authorization>>) = Str(<<"S", "E", "C", "R", "E", "T">>)

\* C2: in the record handed to the original _emit, the protocol fields v,
\* level, name, hostname, pid and time are present with the values they had
\* before interception, for every redaction config.
ProtocolFieldImmunity ==
    RootEmitted =>
        \A k \in ProtocolFields :
            /\ HasProp(last.out, k)
            /\ GetProp(last.out, k) = GetProp(last.rec, k)

\* C3: every record written to a sink by the logger or by a child logger
\* derived from it is the result of the redaction pipeline on the record the
\* log call built.
EveryRecordRedacted ==
    (last.kind # "none" /\ last.emits = 1 /\ last.written) =>
        last.out = Intercept(logger.cfg, last.rec)

\* C4: every value of the non-protocol part reached by a configured pattern
\* is emitted as the censor's result, every value no pattern reaches is
\* emitted equal to its globally-replaced serialized form, and with paths
\* only the message is untouched.
PathMatchCorrectness ==
    RootEmitted =>
        LET cfg == logger.cfg
            rest == RestOf(last.rec)
            copy == SerializedCopy(cfg, rest)
        IN  /\ \A p \in NodePaths(rest) :
                   (Matches(cfg, p) /\ ~CoveredAbove(cfg, p)) =>
                       GetPath(last.out, p) = ApplyCensor(cfg.censor, GetPath(copy, p))
            /\ \A p \in ScalarPaths(copy) :
                   ~Covered(cfg, p) => GetPath(last.out, p) = GetPath(copy, p)
            /\ (cfg.gr = "none" /\ ~Matches(cfg, <<K.msg>>)) =>
                   GetProp(last.out, K.msg) = GetProp(last.rec, K.msg)

\* C5: with a globalReplace configured, every text of the non-protocol part
\* that no path pattern reaches (the message, nested fields, request URL and
\* query values) is emitted rewritten by globalReplace.
GlobalReplaceCorrectness ==
    (RootEmitted /\ logger.cfg.gr # "none") =>
        LET cfg == logger.cfg
            rest == RestOf(last.rec)
        IN  \A p \in NodePaths(rest) :
                (GetPath(rest, p).t = "str" /\ ~Covered(cfg, p)) =>
                    GetPath(last.out, p) =
                        Str(ApplyGlobalReplace(cfg.gr, GetPath(rest, p).s))

\* C6: path redaction runs after globalReplace: a text that a path pattern
\* reaches and that globalReplace rewrites is emitted as the censor's result
\* on the rewritten text.
PipelineOrdering ==
    (RootEmitted /\ logger.cfg.gr # "none") =>
        LET cfg == logger.cfg
            rest == RestOf(last.rec)
        IN  \A p \in NodePaths(rest) :
                (/\ Matches(cfg, p) /\ ~CoveredAbove(cfg, p)
                 /\ GetPath(rest, p).t = "str"
                 /\ ApplyGlobalReplace(cfg.gr, GetPath(rest, p).s) # GetPath(rest, p).s)
                => GetPath(last.out, p) =
                       ApplyCensor(cfg.censor,
                                   Str(ApplyGlobalReplace(cfg.gr, GetPath(rest, p).s)))

\* C7: a configured fixed censor replaces every value a path pattern reaches
\* with that literal, and a censor function replaces it with the function's
\* result on the matched value.
CensorResolution ==
    (RootEmitted /\ logger.cfg.censor # "default") =>
        LET cfg == logger.cfg
            rest == RestOf(last.rec)
            copy == SerializedCopy(cfg, rest)
        IN  \A p \in NodePaths(rest) :
                (Matches(cfg, p) /\ ~CoveredAbove(cfg, p)) =>
                    GetPath(last.out, p) =
                        (IF cfg.censor = "last4fn"
                         THEN censorKeepLast4(GetPath(copy, p))
                         ELSE CustomCensor)

\* C8: every BigInt of the non-protocol part that no path pattern reaches is
\* emitted as its decimal text, and with no redaction configured every other
\* string, number, boolean and null is emitted unchanged.
NumericWidening ==
    RootEmitted =>
        LET cfg == logger.cfg
            rest == RestOf(last.rec)
        IN  /\ \A p \in NodePaths(rest) :
                   (GetPath(rest, p).t = "big" /\ ~Covered(cfg, p)) =>
                       GetPath(last.out, p) = Str(IntToText(GetPath(rest, p).big))
            /\ cfg = NoRedact =>
                   \A p \in ScalarPaths(rest) : GetPath(last.out, p) = GetPath(rest, p)

\* C9: a log call below the logger's level hands nothing to _emit; a log call
\* at or above it that returns hands exactly one record, whose level is the
\* numeric severity of the call.
LevelFiltering ==
    (last.kind # "none" /\ ~last.threw) =>
        /\ last.lvl < logger.level => last.emits = 0
        /\ last.lvl >= logger.level =>
               (last.emits = 1 /\ GetProp(last.out, K.level) = Num(last.lvl))

\* C9 is exercised: a logger built at 'warn' emitted a call made exactly at
\* warn.
LevelFilteringWitness ==
    /\ last.kind = "root"
    /\ logger.optLevel = Str(N.warn)
    /\ logger.level = WARN
    /\ last.lvl = WARN
    /\ last.emits = 1
    /\ GetProp(last.out, K.level) = Num(WARN)

\* C10: the level of a new logger is the level option when one is supplied,
\* otherwise LOG_LEVEL when it is set, otherwise 'info'.
LevelDefaulting ==
    logger.made =>
        logger.level =
            resolveLevel(IF logger.optLevel # Undef THEN logger.optLevel
                         ELSE IF Truthy(env.LOG_LEVEL) THEN env.LOG_LEVEL
                         ELSE Str(N.info))

\* C11: when serializing the non-protocol fields, parsing the rewritten text
\* back or path redaction throws during a log call on the logger, the call
\* throws, nothing is handed to the original _emit for that record and
\* nothing is written to a stream.
NeverFailsOpen ==
    (last.kind = "root" /\ last.rec # Undef
        /\ PipelineThrows(logger.cfg, RestOf(last.rec))) =>
        /\ last.threw
        /\ last.emits = 0
        /\ last.out = Undef
        /\ ~last.written
        /\ \A i \in 1..Len(sink) : sink[i] # GetProp(last.rec, K.time)

\* C11 is exercised: a record holding a circular structure makes
\* JSON.stringify throw and the log call threw.
NeverFailsOpenWitness ==
    /\ last.kind = "root"
    /\ last.threw
    /\ GetPath(last.rec, <<K.a, K.b>>) = Cycle
    /\ JSONStringify(RestOf(last.rec)).k = "throw"

\* C15: two consecutive emissions that hold the caller's request object show
\* the same view of it (the same JSON text), and that view is the redaction
\* of the request's original values.
AliasedEmissionsIndependent ==
    [][(/\ nCalls' = nCalls + 1
        /\ last.kind # "none" /\ last.emits = 1 /\ last'.emits = 1
        /\ FindNode(last.rec, 6).t = "obj"
        /\ FindNode(last'.rec, 6).t = "obj")
       => /\ JSONStringify(GetProp(last'.out, K.req)) =
                 JSONStringify(GetProp(last.out, K.req))
          /\ JSONStringify(GetProp(last'.out, K.req)) =
                 JSONStringify(GetProp(RedactedRest(logger.cfg,
                                   SerializedFields(F_request(InitialHeap))), K.req))]_vars

\* C16: the records handed to the original _emit are those of the log calls
\* that passed the level guard and returned, in the order the calls were
\* made (the k-th record handed over carries the time of the k-th such call).
EmissionOrder ==
    /\ Len(calls) = nCalls
    /\ Len(sink) = Cardinality(HandedCalls)
    /\ \A k \in 1..Len(sink) :
           /\ sink[k].t = "date"
           /\ (sink[k].ms + 1) \in HandedCalls
           /\ Cardinality({j \in HandedCalls : j <= sink[k].ms + 1}) = k

\* C16 is exercised: two calls at or above the level were made and their
\* records were handed over in that order.
EmissionOrderWitness ==
    /\ nCalls = 2
    /\ sink = <<DateVal(0), DateVal(1)>>
    /\ last.emits = 1
    /\ GetProp(last.out, K.time) = DateVal(1)

\* C18: a configured pattern that reaches nothing in the copy of a record
\* changes nothing in it and does not make redact throw, alone or among the
\* other patterns; when no pattern reaches anything the record is emitted.
MissingPathNoOp ==
    (last.kind = "root" /\ last.rec # Undef
        /\ ~IsThrow(SerializedCopy(logger.cfg, RestOf(last.rec)))) =>
        LET cfg == logger.cfg
            copy == SerializedCopy(cfg, RestOf(last.rec))
            reaching == SelectSeq(cfg.paths, LAMBDA q : ReachesSome(q, copy))
        IN  /\ \A i \in 1..Len(cfg.paths) :
                   ~ReachesSome(cfg.paths[i], copy) =>
                       Redact([cfg EXCEPT !.paths = <<cfg.paths[i]>>], copy) = copy
            /\ Redact(cfg, copy) = Redact([cfg EXCEPT !.paths = reaching], copy)
            /\ reaching = <<>> =>
                   (last.emits = 1 /\ \A k \in DOMAIN copy.kv :
                        GetProp(last.out, copy.kv[k][1]) = copy.kv[k][2])

\* C18 is exercised: the pattern a.*.c met a record whose a is a string, and
\* the record was emitted with a as it was.
MissingPathNoOpWitness ==
    /\ RootEmitted
    /\ logger.cfg.paths = <<P.awc>>
    /\ GetProp(last.rec, K.a) = Str(<<"x">>)
    /\ GetProp(last.out, K.a) = Str(<<"x">>)

\* C19: createLogger returns no logger for a redact config with a malformed
\* path: a logger that exists has no malformed path, and a construction
\* with one threw.
ConfigFailFast ==
    /\ logger.made => \A i \in 1..Len(logger.cfg.paths) : ~Malformed(logger.cfg.paths[i])
    /\ logger.threw <=>
           (~logger.made /\ logger # NoLogger
               /\ \E i \in 1..Len(logger.cfg.paths) : Malformed(logger.cfg.paths[i]))
    /\ last.kind # "none" => logger.made

\* C19 is exercised: createLogger threw on the path a..b.
ConfigFailFastWitness ==
    /\ logger.threw
    /\ ~logger.made
    /\ logger.cfg.paths = <<P.pepper, P.emptyseg>>
    /\ nCalls = 0

\* C20: the req, res and err serializers return a falsy input, a request
\* without method, a response without truthy statusCode and an error without
\* stack as they are, and a record holding such values is emitted with them.
SerializerPassthrough ==
    /\ \A f \in FieldsArgs(heap) :
           LET req == GetProp(f, K.req)
               res == GetProp(f, K.res)
               err == GetProp(f, K.err)
           IN  /\ (~Truthy(req) \/ ~Truthy(GetProp(req, K.method))) =>
                      reqSerializer(req) = req
               /\ (~Truthy(res) \/ ~Truthy(GetProp(res, K.statusCode))) =>
                      responseSerializer(res, FALSE) = res
               /\ (~Truthy(err) \/ ~Truthy(GetProp(err, K.stack))) =>
                      errSerializer(err) = err
    /\ (last.kind = "root" /\ last.lvl >= logger.level /\ logger.cfg = NoRedact
            /\ last.rec # Undef /\ GetProp(last.rec, K.err) \in {Obj(0, <<>>), Str(<<>>)}) =>
           /\ last.emits = 1
           /\ \A k \in {K.req, K.res, K.err} :
                  GetProp(last.out, k) = GetProp(last.rec, k)

\* C20 is exercised: err: {} was logged next to a request without method and
\* a response without statusCode, and the record was emitted with the three
\* values as they were.
SerializerPassthroughWitness ==
    /\ RootEmitted
    /\ logger.cfg = NoRedact
    /\ GetProp(last.out, K.err) = Obj(0, <<>>)
    /\ GetProp(last.out, K.req) = Obj(0, << <<K.url, Str(<<"/">>)>> >>)
    /\ GetProp(last.out, K.res) = Obj(0, << <<K.statusCode, Num(0)>> >>)

EnrichmentCondition ==
    \A r \in DOMAIN reqs :
        IsRequestLog(r) =>
            /\ \A k \in {K.httpRequest, K.trace, K.spanId, K.sampled} :
                   HasProp(last.out, k) <=>
                       ((Truthy(env.GAE_SERVICE) \/ Truthy(env.K_SERVICE)) /\ ~mw.exclude)
            /\ HasProp(last.out, K.req) /\ GetProp(last.out, K.req).t = "obj"
            /\ HasProp(last.out, K.res) /\ GetProp(last.out, K.res).t = "obj"

\* C13 is exercised: in a Cloud Functions environment with
\* excludeHttpRequestField set, a 'Request finished' record was emitted with
\* req and res and without httpRequest.
EnrichmentConditionWitness ==
    /\ DOMAIN reqs = Requests
    /\ IsRequestLog(2)
    /\ Truthy(env.K_SERVICE)
    /\ mw.exclude
    /\ ~HasProp(last.out, K.httpRequest)
    /\ GetPath(last.out, <<K.res, K.statusCode>>) = Num(404)

\* C14: the step in which the middleware takes a request calls next() once,
\* hands no record over and finds the response unfinished; next() is called
\* in no other step.
NonBlockingMiddleware ==
    [][\A r \in DOMAIN reqs :
          /\ (reqs[r].stage = "new" /\ reqs'[r].stage # "new") =>
                 /\ reqs'[r].nexts = 1
                 /\ reqs'[r].stage = "handling"
                 /\ reqs'[r].emitted = <<>>
                 /\ sink' = sink
                 /\ ~HasProp(heap'[ResAt(r)], K.rawHeader)
          /\ reqs'[r].nexts # reqs[r].nexts => reqs[r].stage = "new"
          /\ (S_finished \in Range(reqs'[r].emitted)) => reqs'[r].nexts = 1]_vars

\* C14 is exercised: next() was called once for a request whose 'Request
\* finished' record was emitted later, by the completion hook.
NonBlockingMiddlewareWitness ==
    /\ DOMAIN reqs = Requests
    /\ reqs[2].stage = "logged"
    /\ reqs[2].nexts = 1
    /\ reqs[2].emitted = <<S_finished>>
    /\ IsRequestLog(2)

\* C17: whatever the interleaving of the requests, a 'Request finished'
\* record shows the req and res views and the trace context of the request
\* whose hook emitted it, and the req and res objects of all requests are as
\* express and the handlers left them.
ConcurrentRequestsIsolated ==
    /\ \A r \in DOMAIN reqs :
           IsRequestLog(r) =>
               /\ GetPath(last.out, <<K.req, K.method>>) = GetProp(IncomingRequest(r), K.method)
               /\ GetPath(last.out, <<K.req, K.headers, K.traceHeader>>) = TraceHeaderOf(r)
               /\ GetPath(last.out, <<K.res, K.statusCode>>) = Num(AnswerStatus(r))
               /\ HasProp(last.out, K.trace) =>
                      (GetProp(last.out, K.trace) = TraceOf(r)
                          /\ GetProp(last.out, K.spanId) = SpanOf(r))
               /\ JSONStringify(GetProp(last.out, K.req)) =
                      JSONStringify(GetProp(RedactedRest(logger.cfg,
                          SerializedFields(Obj(0, << <<K.req, heap[ReqAt(r)]>> >>))), K.req))
    /\ \A r \in DOMAIN reqs :
           /\ heap[ReqAt(r)] =
                  (IF reqs[r].stage = "new" THEN IncomingRequest(r)
                   ELSE SetPath(IncomingRequest(r), <<K.headers, K.traceHeader>>,
                                TraceHeaderOf(r)))
           /\ GetProp(heap[ResAt(r)], K.statusCode) =
                  Num(IF reqs[r].stage \in {"new", "handling"} THEN 200 ELSE AnswerStatus(r))

\* C17 is exercised: both requests were in flight together, the first one's
\* 'Request finished' record was emitted before the second one's, which is
\* the last record and shows the second request.
ConcurrentRequestsIsolatedWitness ==
    /\ DOMAIN reqs = Requests
    /\ IsRequestLog(2)
    /\ reqs[1].stage = "logged"
    /\ reqs[1].emitted = <<S_finished>>
    /\ reqs[2].emitted = <<S_hi, S_finished>>
    /\ sink = <<DateVal(0), DateVal(1), DateVal(2)>>
    /\ GetPath(last.out, <<K.req, K.method>>) = Str(<<"G", "E", "T">>)
    /\ GetPath(last.out, <<K.req, K.headers, K.authorization>>) = CustomCensor

\* C21 as stated: the message of the record handed to the original _emit is
\* the message the log call built, for every redaction config.
MessageImmunity ==
    RootEmitted => GetProp(last.out, K.msg) = GetProp(last.rec, K.msg)

\* C21: the message is part of what is redacted: it is emitted rewritten by
\* globalReplace and, when a path pattern reaches the key msg, as the
\* censor's result on the rewritten text.
MessageRedacted ==
    RootEmitted =>
        LET cfg == logger.cfg
            rewritten == Str(ApplyGlobalReplace(cfg.gr, GetProp(last.rec, K.msg).s))
        IN  /\ HasProp(last.out, K.msg)
            /\ GetProp(last.out, K.msg) =
                   (IF Matches(cfg, <<K.msg>>) THEN ApplyCensor(cfg.censor, rewritten)
                    ELSE rewritten)

\* C21 is exercised: a message with a phone number was emitted with the
\* number masked while level, v, hostname, pid and time are as built.
MessageRedactedWitness ==
    /\ RootEmitted
    /\ logger.cfg.gr = "phone"
    /\ GetProp(last.rec, K.msg) = Str(M_phone)
    /\ GetProp(last.out, K.msg) = Str(<<"a", "t", " ", "+", "1", "2", "X", "X", "X", "X">>)
    /\ \A k \in ProtocolFields : GetProp(last.out, k) = GetProp(last.rec, k)

\* C22: while a record is emitted, by the logger or by a child logger derived
\* from it, globalReplace is called exactly once, with the serialized text of
\* the record's non-protocol fields; with no globalReplace configured the
\* emitted record is the one the unchanged text gives.
GlobalReplaceOnce ==
    (last.kind # "none" /\ last.emits = 1) =>
        LET text == JSONStringify(RestOf(last.rec)) IN
        /\ last.replaced = <<text.txt>>
        /\ logger.cfg.gr = "none" =>
               last.out = ObjectAssign(last.rec, Redact(logger.cfg, JSONParse(text.txt)))

PathOrderIndependence ==
    (RootBuilt /\ Len(logger.cfg.paths) > 1) =>
        LET copy == SerializedCopy(logger.cfg, RestOf(last.rec)) IN
        ~IsThrow(copy) =>
            /\ OrderIndependent(logger.cfg, copy)
            /\ AsIfMatchedOnce(logger.cfg, copy)

\* C25: in the record handed to the original _emit, the top-level keys
\* outside the protocol fields, and their values, are exactly those of the
\* redacted copy.
MergeCompleteness ==
    RootEmitted =>
        LET redacted == RedactedRest(logger.cfg, RestOf(last.rec))
            emitted == RestOf(last.out)
        IN  /\ Range(KvKeys(emitted.kv)) = Range(KvKeys(redacted.kv))
            /\ \A k \in Range(KvKeys(redacted.kv)) :
                   GetProp(emitted, k) = GetProp(redacted, k)

\* C26: whatever the caller assigns to paths, censor or globalReplace of its
\* config object after createLogger has returned, every log call on the
\* logger has the outcome the config held at construction gives: the same
\* record emitted, or the same exception.
ConfigFixedAtConstruction ==
    RootBuilt =>
        LET expected == Intercept(logger.built, last.rec) IN
        IF IsThrow(expected) THEN last.threw
        ELSE last.emits = 1 /\ last.out = expected

\* C27: the 'Request finished' record holds an httpRequest summary exactly
\* when a service name is set and excludeHttpRequestField is not; the
\* requestUrl of the summary is '/' + K_SERVICE + requestUrl exactly when
\* K_SERVICE is set and requestUrl starts with '/' and not with
\* '/' + K_SERVICE, and is the given requestUrl otherwise; the other members
\* are the given ones; the rule applied to its own output changes nothing.
RequestUrlFormatting ==
    SummaryCall =>
        LET given == GetProp(mw.given, K.requestUrl)
            summary == GetProp(last.out, K.httpRequest)
        IN  IF (IsSet(env.GAE_SERVICE) \/ IsSet(env.K_SERVICE)) /\ ~mw.exclude
            THEN /\ summary.t = "obj"
                 /\ GetProp(summary, K.requestUrl) =
                        (IF MustPrefix(env, given)
                         THEN Str(<<"/">> \o env.K_SERVICE.s \o given.s)
                         ELSE given)
                 /\ \A k \in Range(KvKeys(mw.given.kv)) \cup Range(KvKeys(summary.kv)) :
                        k # K.requestUrl => GetProp(summary, k) = GetProp(mw.given, k)
                 /\ mw.again => GetProp(summary, K.requestUrl) = given
            ELSE ~HasProp(last.out, K.httpRequest)

\* C27 is exercised: in a Cloud Functions environment the summary of a
\* request to '/?p=1' got the function's name in front, and the summary of a
\* request to the URL so written shows it as it is.
RequestUrlFormattingWitness ==
    /\ SummaryCall
    /\ mw.again
    /\ env.K_SERVICE = Str(<<"f", "n">>)
    /\ GetPath(last.out, <<K.httpRequest, K.requestUrl>>)
           = Str(<<"/", "f", "n", "/", "?", "p", "=", "1">>)
    /\ GetPath(last.out, <<K.httpRequest, K.requestMethod>>) = Str(<<"P", "O", "S", "T">>)
    /\ GetPath(last.out, <<K.httpRequest, K.status>>) = Num(404)
    /\ GetPath(last.out, <<K.req, K.url>>) = Str(<<"/", "f", "n", "/", "?", "p", "=", "1">>)

\* C28: the err view of an error with a stack is the base error view, with
\* request and response members exactly when the error has the got shape
\* (options.url) or, failing that, the axios shape (isAxiosError and config);
\* an error with both shapes is described from its got options; the axios
\* request body is the parsed JSON when config.data is a valid JSON text and
\* config.data otherwise; what the logger emits is the result of the
\* redaction pipeline on the record holding that view
ErrorEnrichment ==
    ErrLogged =>
        LET e == LoggedErr
            view == ErrView
            got == HasGotShape(e)
            axios == ~HasGotShape(e) /\ HasAxiosShape(e)
            response == GetProp(e, K.response)
        IN  /\ view.t = "obj"
            /\ \A k \in BaseMembers : GetProp(view, k) = GetProp(e, k)
            /\ Members(view) =
                 BaseMembers \cup (IF got \/ axios THEN {K.request, K.response} ELSE {})
            /\ got =>
                 /\ GetPath(view, <<K.request, K.url>>) = GetPath(e, <<K.options, K.url>>)
                 /\ GetPath(view, <<K.request, K.method>>) = GetPath(e, <<K.options, K.method>>)
                 /\ GetPath(view, <<K.request, K.body>>) =
                      Or(GetPath(e, <<K.options, K.body>>), GetPath(e, <<K.options, K.json>>))
                 /\ IF Truthy(response)
                    THEN /\ GetPath(view, <<K.response, K.statusCode>>) = GetProp(response, K.statusCode)
                         /\ GetPath(view, <<K.response, K.body>>) = GetProp(response, K.body)
                    ELSE GetProp(view, K.response) = response
            /\ axios =>
                 /\ GetPath(view, <<K.request, K.url>>) = GetPath(e, <<K.config, K.url>>)
                 /\ GetPath(view, <<K.request, K.method>>) = GetPath(e, <<K.config, K.method>>)
                 /\ GetPath(view, <<K.request, K.body>>) = BodyOf(GetPath(e, <<K.config, K.data>>))
                 /\ IsJSONText(GetPath(e, <<K.config, K.data>>)) =>
                      GetPath(view, <<K.request, K.body>>).t = "obj"
                 /\ (GetPath(e, <<K.config, K.data>>) = Str(S_roundedJson)
                       /\ logger.cfg = NoRedact) =>
                      GetPath(last.out, <<K.err, K.request, K.body>>) =
                        Obj(0, << <<K.a, GetPath(view, <<K.request, K.body, K.a>>)>>,
                                  <<K.b, GetPath(view, <<K.request, K.body, K.b>>)>>,
                                  <<K.c, Num(0)>>,
                                  <<K.d, Num(0)>>,
                                  <<K.e, Null>> >>)
                 /\ IF Truthy(response)
                    THEN /\ GetPath(view, <<K.response, K.statusCode>>) = GetProp(response, K.status)
                         /\ GetPath(view, <<K.response, K.body>>) = GetProp(response, K.data)
                    ELSE GetProp(view, K.response) = response
            /\ last.emits = 1
            /\ last.out = Intercept(logger.cfg, last.rec)

\* an error with both shapes was logged on a logger that censors
\* err.request.body.pepper and rewrites phone numbers: the emitted view has
\* the url of the got options, a censored pepper and a rewritten phone number
ErrorEnrichmentWitness ==
    /\ ErrLogged
    /\ HasGotShape(LoggedErr) /\ HasAxiosShape(LoggedErr)
    /\ logger.cfg = RC(<<P_errBodyPepper>>, "fixed", "phone")
    /\ GetPath(last.out, <<K.err, K.request, K.url>>) = Str(S_sms)
    /\ GetPath(last.out, <<K.err, K.request, K.body, K.pepper>>) = CustomCensor
    /\ GetPath(last.rec, <<K.err, K.request, K.body, K.phone>>) = Str(S_phone)
    /\ GetPath(last.out, <<K.err, K.request, K.body, K.phone>>) # Str(S_phone)

\* C29: normalizing a value (every BigInt in it becomes its decimal text,
\* everything else stays as it is) a second time changes nothing: the
\* normalized fields of a record hold no BigInt, fields without a BigInt
\* (and without a Date, which the replacer receives as its ISO text) are
\* their own normal form, the serialized text of the normalized fields is
\* the text of the fields, and the copy of a copy is the copy
NormalizationIdempotent ==
    RootBuilt =>
        LET rest == RestOf(last.rec)
            once == Normalized(rest)
            copy == SerializedCopy(NoRedact, rest)
        IN  /\ Normalized(once) = once
            /\ ~HasBigInt(once)
            /\ (~HasBigInt(rest) /\ ~HasDate(rest)) => once = rest
            /\ ~HasDate(once)
            /\ JSONStringify(once) = JSONStringify(rest)
            /\ ~IsThrow(copy) => SerializedCopy(NoRedact, copy) = copy

\* a record holding the caller's payload, whose b.d is the BigInt 10, was
\* emitted: its normal form and the emitted record hold the text "10"
NormalizationIdempotentWitness ==
    /\ RootEmitted
    /\ GetPath(last.rec, <<K.a, K.b, K.d>>) = Big(10)
    /\ GetPath(Normalized(RestOf(last.rec)), <<K.a, K.b, K.d>>) = Str(<<"1", "0">>)
    /\ GetPath(last.out, <<K.a, K.b, K.d>>) = Str(<<"1", "0">>)
    /\ GetPath(Normalized(RestOf(last.rec)), <<K.a, K.pepper>>) = GetPath(last.rec, <<K.a, K.pepper>>)

====
